---- MODULE Spec2Model ----
(***************************************************************************)
(* Blue Prism Analyzer: the dependency extractor (extractDependencies /    *)
(* extractFromStages, in its resource-tag build and its name-pattern       *)
(* build), the Application Modeller tree reconstruction                    *)
(* (buildElementTree), the upload routes /api/analyze, /api/analyze-vbo    *)
(* and /api/analyze-release with the upload filter and the storage, the    *)
(* element and action extractors of the server (extractVBOElements,        *)
(* extractVBOActions) and of the client (extractElements, extractActions,  *)
(* identifyVBOPatterns), the in-memory storage (MemStorage), the state of  *)
(* the Home page and the upload components (FileUpload, VBOUpload).        *)
(*                                                                         *)
(* JavaScript strings are modelled as sequences of one-character strings,  *)
(* so that concatenation, substring search, case folding and prefix        *)
(* stripping are computed rather than assumed.  A node of the xml2js       *)
(* result is a record: its attributes and children are fields, and a node  *)
(* without attributes is a record without the attribute fields.            *)
(***************************************************************************)
EXTENDS Integers, Sequences, FiniteSets, TLC

\* ------------------------------------------------------------------ bounds
MaxStages == 2
MaxSubsheets == 2
MaxElems == 3

\* ------------------------------------------------- JavaScript value helpers
\* The JavaScript value undefined: a one-element sequence whose element is
\* not a single character, hence different from every modelled string.
Undefined == <<"undefined">>

\* JavaScript truthiness of a string-or-undefined value.
Truthy(s) == s # Undefined /\ s # <<>>

\* Array.prototype.includes
Includes(arr, x) == \E i \in 1..Len(arr) : arr[i] = x

UpperToLower ==
  [c \in {"A","B","C","D","E","F","G","H","I","J","K","L","M","N","O","P","Q",
          "R","S","T","U","V","W","X","Y","Z"} |->
     CASE c = "A" -> "a" [] c = "B" -> "b" [] c = "C" -> "c" [] c = "D" -> "d"
       [] c = "E" -> "e" [] c = "F" -> "f" [] c = "G" -> "g" [] c = "H" -> "h"
       [] c = "I" -> "i" [] c = "J" -> "j" [] c = "K" -> "k" [] c = "L" -> "l"
       [] c = "M" -> "m" [] c = "N" -> "n" [] c = "O" -> "o" [] c = "P" -> "p"
       [] c = "Q" -> "q" [] c = "R" -> "r" [] c = "S" -> "s" [] c = "T" -> "t"
       [] c = "U" -> "u" [] c = "V" -> "v" [] c = "W" -> "w" [] c = "X" -> "x"
       [] c = "Y" -> "y" [] c = "Z" -> "z"]

\* Case folding of one string, as the i flag of a regular expression does.
ToLower(s) == [i \in 1..Len(s) |-> IF s[i] \in DOMAIN UpperToLower
                                     THEN UpperToLower[s[i]] ELSE s[i]]

\* s contains p as a contiguous substring.
Contains(s, p) ==
  \E i \in 1..(Len(s) - Len(p) + 1) : SubSeq(s, i, i + Len(p) - 1) = p

\* /p/i.test(s) for a pattern p without metacharacters.
RegexTestI(p, s) ==
  LET ls == SubSeq(ToLower(s), 1, Len(s))
      lp == SubSeq(ToLower(p), 1, Len(p))
  IN Contains(ls, lp)

\* String.prototype.endsWith
EndsWith(s, suffix) ==
  /\ Len(s) >= Len(suffix)
  /\ SubSeq(s, Len(s) - Len(suffix) + 1, Len(s)) = suffix

\* \s of a regular expression (the white space that occurs in names).
IsSpace(c) == c \in {" ", "\t", "\n", "\r"}

\* ------------------------------------------------ string literals of the code
MAIN_PROCESS == <<"M","a","i","n"," ","P","r","o","c","e","s","s">>
UNKNOWN_SUBSHEET == <<"U","n","k","n","o","w","n"," ","S","u","b","s","h","e","e","t">>
VBO_DESC_PREFIX == <<"V","i","s","u","a","l"," ","B","u","s","i","n","e","s","s"," ","O","b","j","e","c","t",":"," ">>
ACTION_DESC_PREFIX == <<"A","c","t","i","o","n",":"," ">>
DASH == <<"-">>
PAT_EXCEL == <<"E","x","c","e","l">>
PAT_EMAIL == <<"E","m","a","i","l">>
PAT_COLLECTION == <<"C","o","l","l","e","c","t","i","o","n">>
PAT_FILE == <<"F","i","l","e">>
PAT_STRING == <<"S","t","r","i","n","g">>
PAT_DATE == <<"D","a","t","e">>
PAT_MATH == <<"M","a","t","h">>
PAT_ENVIRONMENT == <<"E","n","v","i","r","o","n","m","e","n","t">>
PAT_SAP == <<"S","A","P">>
PAT_WEB == <<"W","e","b">>
PAT_DATABASE == <<"D","a","t","a","b","a","s","e">>
VBO_EXCEL == <<"M","S"," ","E","x","c","e","l"," ","V","B","O">>
VBO_EMAIL == <<"E","m","a","i","l"," ","-"," ","P","O","P","3","/","S","M","T","P">>
VBO_COLLECTION == <<"U","t","i","l","i","t","y"," ","-"," ","C","o","l","l","e","c","t","i","o","n"," ","M","a","n","i","p","u","l","a","t","i","o","n">>
VBO_FILE == <<"U","t","i","l","i","t","y"," ","-"," ","F","i","l","e"," ","M","a","n","a","g","e","m","e","n","t">>
VBO_STRINGS == <<"U","t","i","l","i","t","y"," ","-"," ","S","t","r","i","n","g","s">>
VBO_DATE == <<"U","t","i","l","i","t","y"," ","-"," ","D","a","t","e"," ","a","n","d"," ","T","i","m","e">>
VBO_MATH == <<"U","t","i","l","i","t","y"," ","-"," ","M","a","t","h">>
VBO_ENVIRONMENT == <<"U","t","i","l","i","t","y"," ","-"," ","E","n","v","i","r","o","n","m","e","n","t">>
VBO_SAP == <<"S","A","P"," ","A","p","p","l","i","c","a","t","i","o","n"," ","S","e","r","v","e","r">>
VBO_WEB == <<"W","e","b"," ","A","P","I">>
VBO_DATABASE == <<"D","a","t","a","b","a","s","e">>

\* literals of the upload routes and of the VBO and release analysers
EXT_BPPROCESS == <<".","b","p","p","r","o","c","e","s","s">>
EXT_BPOBJECT == <<".","b","p","o","b","j","e","c","t">>
EXT_BPRELEASE == <<".","b","p","r","e","l","e","a","s","e">>
MIME_TEXT_XML == <<"t","e","x","t","/","x","m","l">>
MIME_APPLICATION_XML == <<"a","p","p","l","i","c","a","t","i","o","n","/","x","m","l">>
MSG_ONLY_ALLOWED == <<"O","n","l","y"," ",".","b","p","p","r","o","c","e","s","s",","," ",".","b","p","o","b","j","e","c","t",","," ","a","n","d"," ",".","b","p","r","e","l","e","a","s","e"," ","f","i","l","e","s"," ","a","r","e"," ","a","l","l","o","w","e","d">>
MSG_NO_FILE == <<"N","o"," ","f","i","l","e"," ","u","p","l","o","a","d","e","d">>
MSG_INVALID_PROCESS == <<"I","n","v","a","l","i","d"," ",".","b","p","p","r","o","c","e","s","s"," ","f","i","l","e"," ","f","o","r","m","a","t">>
MSG_INVALID_OBJECT == <<"I","n","v","a","l","i","d"," ",".","b","p","o","b","j","e","c","t"," ","f","i","l","e"," ","f","o","r","m","a","t">>
MSG_INVALID_RELEASE == <<"I","n","v","a","l","i","d"," ",".","b","p","r","e","l","e","a","s","e"," ","f","i","l","e"," ","f","o","r","m","a","t">>
MSG_TYPE_OBJECT == <<"I","n","v","a","l","i","d"," ","f","i","l","e"," ","t","y","p","e","."," ","P","l","e","a","s","e"," ","u","p","l","o","a","d"," ","a"," ",".","b","p","o","b","j","e","c","t"," ","f","i","l","e">>
MSG_TYPE_RELEASE == <<"I","n","v","a","l","i","d"," ","f","i","l","e"," ","t","y","p","e","."," ","P","l","e","a","s","e"," ","u","p","l","o","a","d"," ","a"," ",".","b","p","r","e","l","e","a","s","e"," ","f","i","l","e">>
UNKNOWN_PROCESS == <<"U","n","k","n","o","w","n"," ","P","r","o","c","e","s","s">>
UNKNOWN_VBO == <<"U","n","k","n","o","w","n"," ","V","B","O">>
DEFAULT_VERSION == <<"1",".","0">>
UNKNOWN_RELEASE == <<"U","n","k","n","o","w","n"," ","R","e","l","e","a","s","e">>
UNKNOWN_PACKAGE == <<"U","n","k","n","o","w","n"," ","P","a","c","k","a","g","e">>
UNKNOWN_USER == <<"U","n","k","n","o","w","n">>
UNKNOWN_ID == <<"u","n","k","n","o","w","n">>
STUB_NAME == <<"R","e","f","e","r","e","n","c","e","d"," ","V","B","O"," ","(","n","o","t"," ","i","n","c","l","u","d","e","d"," ","i","n"," ","r","e","l","e","a","s","e",")">>
STUB_VERSION == <<"u","n","k","n","o","w","n">>
STUB_NARRATIVE == <<"V","B","O"," ","r","e","f","e","r","e","n","c","e","d"," ","b","y"," ","I","D"," ","b","u","t"," ","d","e","f","i","n","i","t","i","o","n"," ","n","o","t"," ","i","n","c","l","u","d","e","d"," ","i","n"," ","t","h","i","s"," ","r","e","l","e","a","s","e"," ","f","i","l","e">>
SUBSHEET_INFO == <<"S","u","b","S","h","e","e","t","I","n","f","o">>
TYPE_ELEMENT == <<"e","l","e","m","e","n","t">>
TYPE_GROUP == <<"g","r","o","u","p">>
LIT_TRUE == <<"T","r","u","e">>
PATH_SEP == <<" ","-"," ">>

\* ------------------------------------------- strings that occur in the inputs
NAME_EXCEL_OPEN == <<"E","x","c","e","l"," ","-"," ","O","p","e","n"," ","W","o","r","k","b","o","o","k">>
NAME_EXCEL_DB == <<"E","x","c","e","l"," ","D","a","t","a","b","a","s","e"," ","E","x","p","o","r","t">>
NAME_TAGGED == <<"[","E","x","c","e","l","]"," ","O","p","e","n"," ","W","o","r","k","b","o","o","k">>
NAME_GET_DATE == <<"G","e","t"," ","D","a","t","e">>
NAME_CALC == <<"C","a","l","c">>
NAME_LOWER == <<"u","p","d","a","t","e"," ","r","e","c","o","r","d">>
ACT_GET_CURRENT_DATE == <<"G","e","t"," ","C","u","r","r","e","n","t"," ","D","a","t","e">>
ACT_FORMAT_DATE == <<"F","o","r","m","a","t"," ","D","a","t","e">>
SHEET_A == <<"S","h","e","e","t"," ","A">>
SHEET_B == <<"S","h","e","e","t"," ","B">>
ID_S1 == <<"s","1">>
ID_S2 == <<"s","2">>
ID_S3 == <<"s","3">>
ID_S4 == <<"s","4">>
ELEM_ID_1 == <<"1">>
ELEM_ID_2 == <<"2">>
ELEM_ID_3 == <<"3">>
ELEM_ID_4 == <<"4">>
ELEM_ID_ABSENT == <<"9">>
ELEM_ROOT == <<"R","o","o","t">>
ELEM_CHILD == <<"C","h","i","l","d">>
ELEM_LEAF == <<"L","e","a","f">>
ELEM_ITEM == <<"I","t","e","m">>
ELEM_ID_SIBLING == <<"5">>
ATTR_TEXT == <<"T","e","x","t">>
ATTR_ENABLED == <<"E","n","a","b","l","e","d">>
INUSE_FALSE == <<"F","a","l","s","e">>
INUSE_LOWER == <<"t","r","u","e">>
DATATYPE_TEXT == <<"t","e","x","t">>
VALUE_OK == <<"O","K">>
ELEM_SIBLING == <<"S","i","b","l","i","n","g">>

\* file names, MIME types, attribute values and error texts of the inputs
MSG_XML_ERROR == <<"U","n","c","l","o","s","e","d"," ","r","o","o","t"," ","t","a","g">>
MSG_TYPE_ERROR == <<"C","a","n","n","o","t"," ","r","e","a","d"," ","p","r","o","p","e","r","t","i","e","s"," ","o","f"," ","u","n","d","e","f","i","n","e","d">>
FILE_PROCESS == <<"a",".","b","p","p","r","o","c","e","s","s">>
FILE_OBJECT == <<"a",".","b","p","o","b","j","e","c","t">>
FILE_RELEASE == <<"a",".","b","p","r","e","l","e","a","s","e">>
FILE_OTHER == <<"n","o","t","e","s",".","t","x","t">>
MIME_OCTET == <<"a","p","p","l","i","c","a","t","i","o","n","/","o","c","t","e","t","-","s","t","r","e","a","m">>
PROC_ORDERS == <<"O","r","d","e","r","s">>
PROC_BILLING == <<"B","i","l","l","i","n","g">>
VERSION_2 == <<"2",".","0">>
NARRATIVE_TEXT == <<"N","o","t","e","s">>
VBO_ID_A == <<"v","b","o","-","a">>
VBO_ID_B == <<"v","b","o","-","b">>
PROC_ID_1 == <<"p","1">>
PROC_ID_2 == <<"p","2">>
REL_NAME == <<"R","e","l","e","a","s","e"," ","1">>
PKG_NAME == <<"P","a","c","k","a","g","e"," ","1">>
STAGE_ID_1 == <<"s","t","1">>
STAGE_ID_2 == <<"s","t","2">>
STAGE_ACTION == <<"A","c","t","i","o","n">>
STAGE_TYPE_ACTION == <<"A","c","t","i","o","n">>

\* ----------------------------------------------------------------- inputs
\* A stage node as xml2js delivers it: the attributes name and subsheetid
\* (Undefined when absent) and the list of <resource> children, each with the
\* attributes object and action.
Res(object, action) == [object |-> object, action |-> action]

Stage(name, subsheetid, resource) ==
  [name |-> name, subsheetid |-> subsheetid, resource |-> resource]

StagePool ==
  { Stage(NAME_EXCEL_OPEN, Undefined, <<>>),
    Stage(NAME_GET_DATE, ID_S1, <<Res(VBO_DATE, ACT_GET_CURRENT_DATE)>>),
    Stage(NAME_GET_DATE, ID_S2, <<Res(VBO_DATE, ACT_GET_CURRENT_DATE)>>),
    Stage(NAME_EXCEL_DB, ID_S1, <<>>),
    Stage(NAME_EXCEL_OPEN, Undefined, <<Res(VBO_DATE, ACT_GET_CURRENT_DATE)>>),
    Stage(NAME_EXCEL_OPEN, ID_S2, <<Res(VBO_DATE, Undefined)>>),
    Stage(NAME_CALC, ID_S1, <<Res(VBO_DATE, ACT_FORMAT_DATE)>>),
    Stage(NAME_CALC, Undefined, <<>>),
    Stage(Undefined, Undefined, <<Res(VBO_DATE, ACT_GET_CURRENT_DATE)>>),
    Stage(NAME_TAGGED, ID_S1, <<>>),
    Stage(NAME_LOWER, Undefined, <<>>) }

\* A subsheet node: the attribute subsheetid and the text of its <name> child.
Subsheet(subsheetid, name) == [subsheetid |-> subsheetid, name |-> name]

SubsheetPool ==
  << Subsheet(ID_S1, SHEET_A), Subsheet(ID_S2, SHEET_B),
     Subsheet(ID_S3, Undefined), Subsheet(ID_S4, SHEET_A) >>

SeqsUpTo(S, n) == UNION { [1..k -> S] : k \in 0..n }

\* ------------------------------------------------------------------ state
VARIABLES
  build,        \* which build of extractFromStages runs: "resource" | "pattern"
  stages,       \* process.stage
  subsheets,    \* process.subsheet
  vbos,         \* the Map VBO name -> VBODependency, in insertion order
  pass,         \* 0: the "Main Process" scan; k: the scan of subsheets[k]
  idx,          \* position of forEach in the stage list of the current pass
  pc,           \* "idle" | "scan" | "done"
  result,       \* the list extractDependencies returned
  elements,     \* buildElementTree: the flat VBOElement list
  elementMap,   \* buildElementTree: id -> node, in insertion order
  rootElements, \* buildElementTree: the root list (ids of the map's nodes)
  tpc,          \* "idle" | "map" | "link" | "done"
  tidx,         \* position of the running forEach of buildElementTree
  run,          \* 1: first build; 2: build of the reordered list
  first,        \* roots and children of the first build
  route,        \* the route a request was posted to
  file,         \* req.file: originalname, mimetype and the uploaded content
  hpc,          \* position of the request in multer and in its handler
  parsed,       \* what parseString resolved with
  analysisData, \* the object the handler assembled for validation and storage
  res,          \* the response: status and JSON body
  analyses,     \* storage: the Map id -> saved analysis, in insertion order
  currentId,    \* storage: the next id
  appdef,       \* process.appdef as xml2js delivers it
  xpc,          \* "idle" | "extract" | "done" | "thrown"
  extracted,    \* the list extractVBOElements returned
  calls,        \* concurrent calls of the extraction engine, one record each
  vboStages,    \* the <stage> nodes of a .bpobject document
  extractor,    \* which action extractor runs: "server" | "client"
  apc,          \* "idle" | "extract" | "done" | "thrown"
  actionDefs,   \* the list the action extractor returned
  givenName,    \* the name attribute of a stage that matches a pattern
  derivedName,  \* the action name derived from it
  npc,          \* "idle" | "derive" | "done"
  promises,     \* the calls made on the in-memory storage: the promise each returned
  home,         \* the state of the Home page: analysis, vboAnalysis, isUploading
  callbacks,    \* the callbacks the upload component has invoked so far
  component,    \* which upload component is mounted: "FileUpload" | "VBOUpload"
  uploadedFile, \* useState: the name of the dropped file, Undefined for null
  progress,     \* useState: the value of the progress bar
  isUploading,  \* the prop the parent keeps through the three callbacks
  upc,          \* position of the running onDrop: "idle" | "waiting" | "failed" | "succeeded" | "done"
  timer,        \* the interval id the running onDrop holds in progressInterval
  timers,       \* the interval ids that are active
  toast         \* the last toast shown: "none" | "invalid" | "error" | "success"

depVars == <<build, stages, subsheets, vbos, pass, idx, pc, result>>
treeVars == <<elements, elementMap, rootElements, tpc, tidx, run, first>>
routeVars == <<route, file, hpc, parsed, analysisData, res, analyses, currentId>>
elemVars == <<appdef, xpc, extracted>>
callVars == <<calls>>
actVars == <<vboStages, extractor, apc, actionDefs>>
nameVars == <<givenName, derivedName, npc>>
storeVars == <<promises>>
homeVars == <<home, callbacks>>
uploadVars == <<component, uploadedFile, progress, isUploading, upc, timer, timers, toast>>
moreVars == <<actVars, nameVars, storeVars, homeVars, uploadVars>>
vars == <<build, stages, subsheets, vbos, pass, idx, pc, result,
          elements, elementMap, rootElements, tpc, tidx, run, first,
          route, file, hpc, parsed, analysisData, res, analyses, currentId,
          appdef, xpc, extracted, calls,
          vboStages, extractor, apc, actionDefs,
          givenName, derivedName, npc,
          promises,
          home, callbacks,
          component, uploadedFile, progress, isUploading, upc, timer, timers, toast>>

\* ------------------------------------------------------ dependency extractor
\* findStagesBySubsheet: strict equality on the subsheetid attribute.
findStagesBySubsheet(stgs, subsheetId) ==
  SelectSeq(stgs, LAMBDA s : s.subsheetid = subsheetId)

\* subsheet.name?.[0] || "Unknown Subsheet"
SubsheetName(subsheet) ==
  IF Truthy(subsheet.name) THEN subsheet.name ELSE UNKNOWN_SUBSHEET

\* The stage list and the location of scan number p of extractDependencies.
PassStages(p) ==
  IF p = 0 THEN stages
  ELSE findStagesBySubsheet(stages, subsheets[p].subsheetid)

PassLocation(p) == IF p = 0 THEN MAIN_PROCESS ELSE SubsheetName(subsheets[p])

\* vbos.has(vboKey) / vbos.get(vboKey): position of the key in the Map, 0 if absent.
VboIndex(map, vboKey) ==
  IF \E i \in 1..Len(map) : map[i].id = vboKey
    THEN CHOOSE i \in 1..Len(map) : map[i].id = vboKey
    ELSE 0

NewVBO(vboKey, vboName) ==
  [id |-> vboKey, name |-> vboName, usageCount |-> 0, locations |-> <<>>,
   actions |-> <<>>, description |-> VBO_DESC_PREFIX \o vboName]

\* Mutant: the has() test is dropped, every usage creates an entry.
GetOrCreateVBO_AlwaysCreate(map, vboKey, vboName) ==
  Append(map, NewVBO(vboKey, vboName))

\* if (!vbos.has(vboKey)) vbos.set(vboKey, {...})
GetOrCreateVBO(map, vboKey, vboName) ==
  IF VboIndex(map, vboKey) = 0 THEN Append(map, NewVBO(vboKey, vboName)) ELSE map

\* Mutant: the includes() test is dropped, every usage pushes its location.
AddLocation_AlwaysPush(locations, location) == Append(locations, location)

\* if (!x.locations.includes(location)) x.locations.push(location)
AddLocation(locations, location) ==
  IF Includes(locations, location) THEN locations
  ELSE Append(locations, location)

NewAction(actionKey, actionName, location) ==
  [id |-> actionKey, name |-> actionName, usageCount |-> 1,
   locations |-> <<location>>, description |-> ACTION_DESC_PREFIX \o actionName]

\* Mutant: an existing action gets its location but no increment.
UpdateAction_NoIncrement(action, location) ==
  [action EXCEPT !.locations = AddLocation(@, location)]

\* existingAction.usageCount++ and the guarded push of the location
UpdateAction(action, location) ==
  [action EXCEPT !.usageCount = @ + 1,
                 !.locations = AddLocation(@, location)]

\* Array.find: the first position whose element satisfies the test, 0 if none.
FindActionByName(actions, actionName) ==
  IF \E i \in 1..Len(actions) : actions[i].name = actionName
    THEN CHOOSE i \in 1..Len(actions) :
           /\ actions[i].name = actionName
           /\ \A j \in 1..(i - 1) : actions[j].name # actionName
    ELSE 0

FindActionById(actions, actionKey) ==
  IF \E i \in 1..Len(actions) : actions[i].id = actionKey
    THEN CHOOSE i \in 1..Len(actions) :
           /\ actions[i].id = actionKey
           /\ \A j \in 1..(i - 1) : actions[j].id # actionKey
    ELSE 0

\* An updated action is moved to the end of the list.
UpsertAction_MoveToEnd(actions, k, actionKey, actionName, location) ==
  IF k = 0 THEN Append(actions, NewAction(actionKey, actionName, location))
  ELSE Append(SelectSeq(actions, LAMBDA a : a # actions[k]),
              UpdateAction(actions[k], location))

\* The if (!existingAction) ... else ... of extractFromStages, k being the
\* position find returned.
UpsertAction(actions, k, actionKey, actionName, location) ==
  IF k = 0 THEN Append(actions, NewAction(actionKey, actionName, location))
  ELSE [actions EXCEPT ![k] = UpdateAction(@, location)]

\* vbo.usageCount++ and the guarded push of the location
TouchVBO(vbo, location) ==
  [vbo EXCEPT !.usageCount = @ + 1,
              !.locations = AddLocation(@, location)]

\* Resource-tag build: the body of the if (vboName && actionName).
RecordResourceUsage(map, vboName, actionName, location) ==
  LET m1 == GetOrCreateVBO(map, vboName, vboName)
      i == VboIndex(m1, vboName)
      vbo == TouchVBO(m1[i], location)
      actionKey == actionName \o DASH \o vboName
      k == FindActionByName(vbo.actions, actionName)
  IN [m1 EXCEPT ![i] =
        [vbo EXCEPT !.actions =
           UpsertAction(@, k, actionKey, actionName, location)]]

\* Resource-tag build of extractFromStages, one stage.
ExtractResourceStage(map, stage, location) ==
  IF Len(stage.resource) > 0
    THEN LET resource == stage.resource[1] IN
         IF Truthy(resource.object) /\ Truthy(resource.action)
           THEN RecordResourceUsage(map, resource.object, resource.action, location)
           ELSE map
    ELSE map

\* Mutant: the Database entry moved to the head of the list.
vboPatterns_DatabaseFirst ==
  << [pattern |-> PAT_DATABASE, vboName |-> VBO_DATABASE],
     [pattern |-> PAT_EXCEL, vboName |-> VBO_EXCEL],
     [pattern |-> PAT_EMAIL, vboName |-> VBO_EMAIL],
     [pattern |-> PAT_COLLECTION, vboName |-> VBO_COLLECTION],
     [pattern |-> PAT_FILE, vboName |-> VBO_FILE],
     [pattern |-> PAT_STRING, vboName |-> VBO_STRINGS],
     [pattern |-> PAT_DATE, vboName |-> VBO_DATE],
     [pattern |-> PAT_MATH, vboName |-> VBO_MATH],
     [pattern |-> PAT_ENVIRONMENT, vboName |-> VBO_ENVIRONMENT],
     [pattern |-> PAT_SAP, vboName |-> VBO_SAP],
     [pattern |-> PAT_WEB, vboName |-> VBO_WEB] >>

\* Name-pattern build: the ordered pattern list.
vboPatterns ==
  << [pattern |-> PAT_EXCEL, vboName |-> VBO_EXCEL],
     [pattern |-> PAT_EMAIL, vboName |-> VBO_EMAIL],
     [pattern |-> PAT_COLLECTION, vboName |-> VBO_COLLECTION],
     [pattern |-> PAT_FILE, vboName |-> VBO_FILE],
     [pattern |-> PAT_STRING, vboName |-> VBO_STRINGS],
     [pattern |-> PAT_DATE, vboName |-> VBO_DATE],
     [pattern |-> PAT_MATH, vboName |-> VBO_MATH],
     [pattern |-> PAT_ENVIRONMENT, vboName |-> VBO_ENVIRONMENT],
     [pattern |-> PAT_SAP, vboName |-> VBO_SAP],
     [pattern |-> PAT_WEB, vboName |-> VBO_WEB],
     [pattern |-> PAT_DATABASE, vboName |-> VBO_DATABASE] >>

\* The for loop with its break: the first entry from position k on whose
\* pattern matches, 0 when the loop runs off the end.
RECURSIVE MatchFrom(_, _)
MatchFrom(stageName, k) ==
  IF k > Len(vboPatterns) THEN 0
  ELSE IF RegexTestI(vboPatterns[k].pattern, stageName) THEN k
  ELSE MatchFrom(stageName, k + 1)

\* stageName.replace(/^\[.*?\]\s*/, ""): a leading "[", lazily up to the first
\* "]" (no line break in between), and the white space that follows.
RECURSIVE SkipSpaces(_, _)
SkipSpaces(s, i) ==
  IF i <= Len(s) /\ IsSpace(s[i]) THEN SkipSpaces(s, i + 1) ELSE i

StripLeadingTag(s) ==
  IF /\ Len(s) >= 2
     /\ s[1] = "["
     /\ \E j \in 2..Len(s) :
          /\ s[j] = "]"
          /\ \A m \in 2..(j - 1) : s[m] \notin {"\n", "\r"}
    THEN LET j == CHOOSE j \in 2..Len(s) :
                    /\ s[j] = "]"
                    /\ \A m \in 2..(j - 1) : s[m] # "]"
             n == SkipSpaces(s, j + 1)
         IN SubSeq(s, n, Len(s))
    ELSE s

extractActionName(stageName) ==
  IF \E i \in 1..Len(stageName) : IsSpace(stageName[i])
    THEN LET cleaned == StripLeadingTag(stageName)
         IN IF cleaned # <<>> THEN cleaned ELSE stageName
    ELSE stageName

\* Name-pattern build: the body of the if (pattern.test(stageName)).
RecordPatternUsage(map, vboName, stageName, location) ==
  LET m1 == GetOrCreateVBO(map, vboName, vboName)
      i == VboIndex(m1, vboName)
      vbo == TouchVBO(m1[i], location)
      actionName == extractActionName(stageName)
      actionKey == actionName \o DASH \o location
      k == FindActionById(vbo.actions, actionKey)
  IN [m1 EXCEPT ![i] =
        [vbo EXCEPT !.actions =
           UpsertAction(@, k, actionKey, actionName, location)]]

\* Name-pattern build of extractFromStages, one stage.
ExtractPatternStage(map, stage, location) ==
  IF Truthy(stage.name)
    THEN LET k == MatchFrom(stage.name, 1) IN
         IF k = 0 THEN map
         ELSE RecordPatternUsage(map, vboPatterns[k].vboName, stage.name, location)
    ELSE map

\* ------------------------------------------------ nodes without attributes
\* xml2js puts the attributes of an element under the key $ and leaves the
\* key out when the element has none.  A node's attributes are modelled by
\* the fields of its record, and a node without attributes by a record that
\* lacks them, so that reading one is reading a property of undefined.
BareStage == [resource |-> <<>>]
BareSubsheet(name) == [name |-> name]

StageHasAttributes(stage) == "subsheetid" \in DOMAIN stage
SubsheetHasAttributes(subsheet) == "subsheetid" \in DOMAIN subsheet
NodeHasAttributes(node) == "name" \in DOMAIN node

\* The outcome of a synchronous call: a TypeError thrown or a value returned.
Thrown == [threw |-> TRUE]
Returned(v) == [threw |-> FALSE, value |-> v]

\* ------------------------------------- the extraction engine, call by call
\* A Map that outlives the call that filled it: the dependency list of the
\* call that returned last.
NewVboMap_Shared ==
  LET finished == SelectSeq(calls, LAMBDA c : c.pc = "returned" /\ c.kind = "dependencies"
                                              /\ ~c.result.threw)
  IN IF finished = <<>> THEN <<>> ELSE finished[Len(finished)].result.value

\* const vbos: Map<string, VBODependency> = new Map();
NewVboMap == <<>>

\* extractFromStages: stages.forEach from position i on.  stageData.name is
\* read for every stage, whatever the build.
RECURSIVE extractFromStages(_, _, _, _, _)
extractFromStages(b, map, stgs, i, location) ==
  IF i > Len(stgs) THEN Returned(map)
  ELSE IF ~StageHasAttributes(stgs[i]) THEN Thrown
  ELSE extractFromStages(b,
         IF b = "resource" THEN ExtractResourceStage(map, stgs[i], location)
                           ELSE ExtractPatternStage(map, stgs[i], location),
         stgs, i + 1, location)

\* subsheets.forEach from position k on.
RECURSIVE ScanSubsheets(_, _, _, _)
ScanSubsheets(b, outcome, process, k) ==
  IF outcome.threw THEN Thrown
  ELSE IF k > Len(process.subsheet) THEN outcome
  ELSE IF ~SubsheetHasAttributes(process.subsheet[k]) THEN Thrown
  ELSE LET subsheet == process.subsheet[k]
           subsheetStages == findStagesBySubsheet(process.stage, subsheet.subsheetid)
       IN ScanSubsheets(b,
            extractFromStages(b, outcome.value, subsheetStages, 1, SubsheetName(subsheet)),
            process, k + 1)

\* extractDependencies, started from the Map map0.
extractDependenciesFrom(map0, b, process) ==
  ScanSubsheets(b, extractFromStages(b, map0, process.stage, 1, MAIN_PROCESS), process, 1)

extractDependencies(b, process) == extractDependenciesFrom(NewVboMap, b, process)

\* ------------------------------------------- Application Modeller elements
\* An <element> or <group> node: the attribute name, the text of its <id> and
\* <type> children, the attribute type, and its <element> and <group>
\* children.  A node built here carries no <attributes> child.
ElementNode(name, id, type, typeAttr, element, group) ==
  [name |-> name, id |-> id, type |-> type, typeAttr |-> typeAttr,
   element |-> element, group |-> group]

BareElementNode(id, type, element, group) ==
  [id |-> id, type |-> type, element |-> element, group |-> group]

\* result[tag] when the root has another tag.
NoElement == [absent |-> TRUE]
\* An element without attributes, children and text: xml2js delivers "".
EmptyElement == [empty |-> TRUE]
NodeTruthy(node) == "absent" \notin DOMAIN node /\ "empty" \notin DOMAIN node

\* An <element> with an <attributes> child and no other child nodes.
AttributedElementNode(name, id, attributesArray) ==
  [name |-> name, id |-> id, type |-> Undefined, typeAttr |-> Undefined,
   element |-> <<>>, group |-> <<>>, attributes |-> attributesArray]

\* <attributes>, <attribute name inuse> and <ProcessValue datatype value>.
AttributesNode(attribute) == [attribute |-> attribute]
AttributeNode(name, inuse, ProcessValue) ==
  [name |-> name, inuse |-> inuse, ProcessValue |-> ProcessValue]
BareAttributeNode(ProcessValue) == [ProcessValue |-> ProcessValue]
ProcessValueNode(datatype, value) == [datatype |-> datatype, value |-> value]
\* An element with text and no attributes: xml2js delivers the text, a string.
TextElement == [text |-> TRUE]

\* The attributes field of a VBOElement: undefined, or the object built from
\* the attribute children, its keys in insertion order.
NoAttributes == [undefined |-> TRUE]
AttributeMap(entries) == [entries |-> entries]

VBOElement(id, name, type, parentId, path, attributes) ==
  [id |-> id, name |-> name, type |-> type, parentId |-> parentId, path |-> path,
   attributes |-> attributes]

\* attributes[attrName] = value: a new key is appended, an existing key keeps
\* its place and gets the new value.
AttributePut(map, entry) ==
  IF \E i \in 1..Len(map) : map[i].name = entry.name
    THEN [i \in 1..Len(map) |-> IF map[i].name = entry.name THEN entry ELSE map[i]]
    ELSE Append(map, entry)

\* inuse: attr.$.inuse === "True"
InUse(inuse) == inuse = LIT_TRUE

\* element.attributes[0].attribute.forEach from position i on.
RECURSIVE CollectAttributes(_, _, _)
CollectAttributes(attrs, i, map) ==
  IF i > Len(attrs) THEN Returned(map)
  ELSE LET attr == attrs[i] IN
       IF ~NodeHasAttributes(attr) THEN Thrown
       ELSE LET values == attr.ProcessValue
                hasValue == Len(values) > 0 /\ NodeTruthy(values[1])
            IN IF Truthy(attr.name) /\ hasValue
                 THEN IF "datatype" \notin DOMAIN values[1] THEN Thrown
                      ELSE CollectAttributes(attrs, i + 1,
                             AttributePut(map, [name |-> attr.name,
                                                datatype |-> values[1].datatype,
                                                value |-> values[1].value,
                                                inuse |-> InUse(attr.inuse)]))
                 ELSE CollectAttributes(attrs, i + 1, map)

\* The entries of the attributes object built for one element.
ElementAttributes(element) ==
  IF "attributes" \notin DOMAIN element THEN Returned(<<>>)
  ELSE IF Len(element.attributes) = 0 THEN Returned(<<>>)
  ELSE IF ~NodeTruthy(element.attributes[1]) THEN Returned(<<>>)
  ELSE IF "attribute" \notin DOMAIN element.attributes[1] THEN Returned(<<>>)
  ELSE CollectAttributes(element.attributes[1].attribute, 1, <<>>)

\* The element pushed for a group: it has no attributes key at all.
GroupElement(id, name, parentId, path) ==
  [id |-> id, name |-> name, type |-> TYPE_GROUP, parentId |-> parentId, path |-> path]

\* element.type?.[0] || element.$.type || "element"
ElementType(element) ==
  IF Truthy(element.type) THEN element.type
  ELSE IF Truthy(element.typeAttr) THEN element.typeAttr
  ELSE TYPE_ELEMENT

\* A path that is always the bare name.
JoinPath_NameOnly(parentPath, name) == name

\* parentPath ? `${parentPath} - ${name}` : name
JoinPath(parentPath, name) ==
  IF Truthy(parentPath) THEN parentPath \o PATH_SEP \o name ELSE name

RECURSIVE extractElementsRecursive(_, _, _, _, _)
RECURSIVE ExtractGroups(_, _, _, _, _)

\* element.group.forEach from position j on: a group with a name and an id is
\* pushed with type "group" and only its <element> children are walked.
ExtractGroups(groups, j, elems, currentPath, id) ==
  IF j > Len(groups) THEN Returned(elems)
  ELSE LET group == groups[j] IN
       IF ~NodeHasAttributes(group) THEN Thrown
       ELSE IF Truthy(group.name) /\ Truthy(group.id)
         THEN LET groupPath == currentPath \o PATH_SEP \o group.name
                  pushed == Append(elems, GroupElement(group.id, group.name, id, groupPath))
                  inner == extractElementsRecursive(group.element, 1, pushed, groupPath, group.id)
              IN IF inner.threw THEN Thrown
                 ELSE ExtractGroups(groups, j + 1, inner.value, currentPath, id)
         ELSE ExtractGroups(groups, j + 1, elems, currentPath, id)

\* elementArray.forEach from position i on.
extractElementsRecursive(elementArray, i, elems, parentPath, parentId) ==
  IF i > Len(elementArray) THEN Returned(elems)
  ELSE LET element == elementArray[i] IN
       IF ~NodeHasAttributes(element) THEN Thrown
       ELSE IF Truthy(element.name) /\ Truthy(element.id)
         THEN LET currentPath == JoinPath(parentPath, element.name)
                  attributes == ElementAttributes(element)
                  pushed == IF attributes.threw THEN elems
                            ELSE Append(elems,
                                   VBOElement(element.id, element.name, ElementType(element),
                                              parentId, currentPath,
                                              IF Len(attributes.value) > 0
                                                THEN AttributeMap(attributes.value)
                                                ELSE NoAttributes))
                  children == IF attributes.threw THEN Thrown
                              ELSE extractElementsRecursive(element.element, 1, pushed,
                                                            currentPath, element.id)
                  groups == IF children.threw THEN Thrown
                            ELSE ExtractGroups(element.group, 1, children.value,
                                               currentPath, element.id)
              IN IF groups.threw THEN Thrown
                 ELSE extractElementsRecursive(elementArray, i + 1, groups.value,
                                               parentPath, parentId)
         ELSE extractElementsRecursive(elementArray, i + 1, elems, parentPath, parentId)

\* const elements: any[] = [];
NewElementList == <<>>

\* extractVBOElements, started from the list list0: only appdefArray[0].element
\* is walked.
extractVBOElementsFrom(list0, appdefArray) ==
  IF Len(appdefArray) = 0 THEN Returned(list0)
  ELSE extractElementsRecursive(appdefArray[1].element, 1, list0, <<>>, Undefined)

extractVBOElements(appdefArray) == extractVBOElementsFrom(NewElementList, appdefArray)

\* ---------------------------------------------------- uploads and documents
MaxItems == 2

\* req.file is undefined when the request carries no file.
NoFile == [absent |-> TRUE]
UploadedFile(originalname, mimetype, content) ==
  [originalname |-> originalname, mimetype |-> mimetype, content |-> content]
HasFile(f) == "originalname" \in DOMAIN f

\* The uploaded text: not well-formed XML, or a document with its root tag and
\* the root node xml2js builds for it.
Malformed == [malformed |-> TRUE]
Document(root, node) == [root |-> root, node |-> node]


RootOf(parseResult, tag) ==
  IF parseResult.root = tag THEN parseResult.node ELSE NoElement

\* parseString(xmlContent, (err, result) => err ? reject(err) : resolve(result))
parseString(content) ==
  IF "malformed" \in DOMAIN content THEN Thrown ELSE Returned(content)

\* A stage node with the attributes the VBO analyser reads as well.
RouteStage(name, subsheetid, resource, type, stageid) ==
  [name |-> name, subsheetid |-> subsheetid, resource |-> resource,
   type |-> type, stageid |-> stageid]

\* The root node of a .bpprocess or .bpobject document.
ProcessNode(name, version, narrative, stage, subsheet, appdefArray) ==
  [name |-> name, version |-> version, narrative |-> narrative,
   stage |-> stage, subsheet |-> subsheet, appdef |-> appdefArray]

BareProcessNode(stage, subsheet, appdefArray) ==
  [stage |-> stage, subsheet |-> subsheet, appdef |-> appdefArray]

\* a || b on strings
OrElse(a, b) == IF Truthy(a) THEN a ELSE b

\* ------------------------------------------------------------ /api/analyze
RECURSIVE SumActions(_)
SumActions(dependencies) ==
  IF dependencies = <<>> THEN 0
  ELSE Len(dependencies[1].actions) + SumActions(Tail(dependencies))

\* The handler between the root check and validation.
ProcessAnalysisData(f, process) ==
  IF ~NodeHasAttributes(process) THEN Thrown
  ELSE LET processName == OrElse(process.name, UNKNOWN_PROCESS)
           dependencies == extractDependencies("resource", process)
       IN IF dependencies.threw THEN Thrown
          ELSE Returned([fileName |-> f.originalname,
                         processName |-> processName,
                         totalStages |-> Len(process.stage),
                         vboCount |-> Len(dependencies.value),
                         actionCount |-> SumActions(dependencies.value),
                         subsheetCount |-> Len(process.subsheet),
                         dependencies |-> dependencies.value])

\* -------------------------------------------------------- /api/analyze-vbo
\* extractVBOActions: stages.forEach from position i on.  The stages carry no
\* <narrative>, <input> or <output> child.
RECURSIVE extractVBOActions(_, _, _)
extractVBOActions(stgs, i, actions) ==
  IF i > Len(stgs) THEN Returned(actions)
  ELSE IF ~StageHasAttributes(stgs[i]) THEN Thrown
  ELSE extractVBOActions(stgs, i + 1,
         IF stgs[i].type = SUBSHEET_INFO
           THEN Append(actions, [id |-> stgs[i].stageid, name |-> stgs[i].name,
                                 type |-> stgs[i].type, description |-> Undefined,
                                 inputs |-> Undefined, outputs |-> Undefined])
           ELSE actions)

VBOAnalysisData(f, process) ==
  IF ~NodeHasAttributes(process) THEN Thrown
  ELSE LET vboName == OrElse(process.name, UNKNOWN_VBO)
           version == OrElse(process.version, DEFAULT_VERSION)
           narrative == OrElse(process.narrative, <<>>)
           actions == extractVBOActions(process.stage, 1, <<>>)
           elems == IF actions.threw THEN Thrown ELSE extractVBOElements(process.appdef)
       IN IF elems.threw THEN Thrown
          ELSE Returned([fileName |-> f.originalname,
                         vboName |-> vboName,
                         version |-> version,
                         narrative |-> narrative,
                         actionCount |-> Len(actions.value),
                         elementCount |-> Len(elems.value),
                         actions |-> actions.value,
                         elements |-> elems.value])

\* ---------------------------------------------------- /api/analyze-release
\* The root node of a .bprelease document: the text of its bpr:name,
\* bpr:package-name, bpr:created, bpr:user-created-by and bpr:release-notes
\* children and the list of its bpr:contents children.
ReleaseNode(name, packageName, created, createdBy, releaseNotes, contents) ==
  [name |-> name, packageName |-> packageName, created |-> created,
   createdBy |-> createdBy, releaseNotes |-> releaseNotes, contents |-> contents]

\* A bpr:contents node: its <process> and <object-group> children.
Contents(process, objectGroup) == [process |-> process, objectGroup |-> objectGroup]

\* A <process> child of bpr:contents: the attributes id and name and the list
\* of the <process> elements nested in it.
ProcessItem(id, name, process) == [id |-> id, name |-> name, process |-> process]
BareProcessItem(process) == [process |-> process]

\* An <object-group> with its <members> children, each the list of its
\* <object> children; an <object> reference with its id attribute.
ObjectGroup(members) == [members |-> members]
Members(object) == [object |-> object]
ObjectRef(id) == [id |-> id]

\* What the properties $, stage and subsheet of an Array are: xml2js delivers
\* the <process> children of an element as an Array, which has none of them.
ArrayAsProcess(arr) == [stage |-> <<>>, subsheet |-> <<>>]
ArrayAttributes(arr) == [name |-> Undefined, version |-> Undefined]

\* The callback of processArray.map; Dropped stands for null.
Dropped == [dropped |-> TRUE]
ReleaseProcessOf(processItem) ==
  LET processContent == processItem.process IN
  IF processContent # <<>> /\ NodeHasAttributes(processItem)
    THEN LET processAttrs == ArrayAttributes(processContent)
             process == ArrayAsProcess(processContent)
             dependencies == extractDependencies("resource", process)
         IN [id |-> OrElse(processItem.id, UNKNOWN_ID),
             name |-> OrElse(processItem.name, OrElse(processAttrs.name, UNKNOWN_PROCESS)),
             version |-> OrElse(processAttrs.version, DEFAULT_VERSION),
             totalStages |-> Len(process.stage),
             subsheetCount |-> Len(process.subsheet),
             dependencies |-> dependencies.value]
    ELSE Dropped

\* processArray.map(...).filter(Boolean)
ReleaseProcesses(processArray) ==
  LET mapped == [i \in 1..Len(processArray) |-> ReleaseProcessOf(processArray[i])]
  IN SelectSeq(mapped, LAMBDA p : "dropped" \notin DOMAIN p)

\* A stub that reads like a resolved VBO with one action.
ReleaseVBOStub_Resolved(id) ==
  [id |-> id, name |-> id, version |-> STUB_VERSION, narrative |-> STUB_NARRATIVE,
   actionCount |-> 1, elementCount |-> 0, actions |-> <<>>, elements |-> <<>>]

\* The object pushed for a reference with an id.
ReleaseVBOStub(id) ==
  [id |-> id, name |-> STUB_NAME, version |-> STUB_VERSION,
   narrative |-> STUB_NARRATIVE, actionCount |-> 0, elementCount |-> 0,
   actions |-> <<>>, elements |-> <<>>]

\* ref.$ && ref.$.id
RefHasId(ref) == "id" \in DOMAIN ref /\ Truthy(ref.id)

\* refs.forEach from position i on.
RECURSIVE PushStubs(_, _, _)
PushStubs(refs, i, list) ==
  IF i > Len(refs) THEN list
  ELSE PushStubs(refs, i + 1,
         IF RefHasId(refs[i]) THEN Append(list, ReleaseVBOStub(refs[i].id)) ELSE list)

\* objectGroups.forEach from position g on: only members[0] is read.
RECURSIVE ReleaseVBOs(_, _, _)
ReleaseVBOs(objectGroups, g, list) ==
  IF g > Len(objectGroups) THEN list
  ELSE ReleaseVBOs(objectGroups, g + 1,
         IF objectGroups[g].members # <<>> /\ objectGroups[g].members[1].object # <<>>
           THEN PushStubs(objectGroups[g].members[1].object, 1, list)
           ELSE list)

RECURSIVE SumProcessActions(_)
SumProcessActions(processes) ==
  IF processes = <<>> THEN 0
  ELSE SumActions(processes[1].dependencies) + SumProcessActions(Tail(processes))

RECURSIVE SumField(_, _)
SumField(list, field) ==
  IF list = <<>> THEN 0 ELSE list[1][field] + SumField(Tail(list), field)

\* Totals that count the referenced ids (the Set vboRefs) rather than the stubs.
ReleaseTotals_DistinctRefs(processes, stubs) ==
  [processCount |-> Len(processes),
   vboCount |-> Cardinality({stubs[i].id : i \in 1..Len(stubs)}),
   totalActionCount |-> SumProcessActions(processes) + SumField(stubs, "actionCount"),
   totalElementCount |-> SumField(stubs, "elementCount")]

\* Calculate totals
ReleaseTotals(processes, stubs) ==
  [processCount |-> Len(processes),
   vboCount |-> Len(stubs),
   totalActionCount |-> SumProcessActions(processes) + SumField(stubs, "actionCount"),
   totalElementCount |-> SumField(stubs, "elementCount")]

\* releaseData['bpr:contents']?.[0] || {}
ContentsOf(releaseData) ==
  IF releaseData.contents = <<>> THEN Contents(<<>>, <<>>) ELSE releaseData.contents[1]

ReleaseAnalysisData(f, releaseData) ==
  LET contents == ContentsOf(releaseData)
      processes == ReleaseProcesses(contents.process)
      stubs == ReleaseVBOs(contents.objectGroup, 1, <<>>)
      totals == ReleaseTotals(processes, stubs)
  IN Returned([fileName |-> f.originalname,
               releaseName |-> OrElse(releaseData.name, UNKNOWN_RELEASE),
               packageName |-> OrElse(releaseData.packageName, UNKNOWN_PACKAGE),
               created |-> OrElse(releaseData.created, <<>>),
               createdBy |-> OrElse(releaseData.createdBy, UNKNOWN_USER),
               processCount |-> totals.processCount,
               vboCount |-> totals.vboCount,
               totalActionCount |-> totals.totalActionCount,
               totalElementCount |-> totals.totalElementCount,
               processes |-> processes,
               vbos |-> stubs,
               releaseNotes |-> OrElse(releaseData.releaseNotes, <<>>)])

\* ------------------------------------------------------ the upload routes
\* fileFilter of multer: cb(null, true) or cb(new Error(...)).
FileFilter(f) ==
  \/ EndsWith(f.originalname, EXT_BPPROCESS)
  \/ EndsWith(f.originalname, EXT_BPOBJECT)
  \/ EndsWith(f.originalname, EXT_BPRELEASE)
  \/ f.mimetype = MIME_TEXT_XML
  \/ f.mimetype = MIME_APPLICATION_XML

NotParsed == [pending |-> TRUE]
NoData == [pending |-> TRUE]
NoResponse == [status |-> 0, body |-> [pending |-> TRUE]]
ErrorBody(message) == [message |-> message]

RouteIdle ==
  /\ route = "none" /\ file = NoFile /\ hpc = "idle" /\ parsed = NotParsed
  /\ analysisData = NoData /\ res = NoResponse /\ analyses = <<>> /\ currentId = 1

ElemIdle == appdef = <<>> /\ xpc = "idle" /\ extracted = <<>>

CallIdle == calls = <<>>

ActIdle == vboStages = <<>> /\ extractor = "server" /\ apc = "idle" /\ actionDefs = <<>>

NameIdle == givenName = <<>> /\ derivedName = <<>> /\ npc = "idle"

StoreIdle == promises = <<>>

HomeIdle == home = [analysis |-> [null |-> TRUE], vboAnalysis |-> [null |-> TRUE], isUploading |-> FALSE] /\ callbacks = <<>>

UploadIdle == component = "FileUpload" /\ uploadedFile = Undefined /\ progress = 0 /\ isUploading = FALSE /\ upc = "idle" /\ timer = 0 /\ timers = {} /\ toast = "none"

MoreIdle == ActIdle /\ NameIdle /\ StoreIdle /\ HomeIdle /\ UploadIdle

\* extractDependencies: const vbos = new Map(); the first scan is the
\* "Main Process" scan over process.stage.
DepIdle ==
  /\ build = "resource" /\ stages = <<>> /\ subsheets = <<>> /\ vbos = <<>>
  /\ pass = 0 /\ idx = 1 /\ pc = "idle" /\ result = <<>>

TreeIdle ==
  /\ elements = <<>> /\ elementMap = <<>> /\ rootElements = <<>>
  /\ tpc = "idle" /\ tidx = 1 /\ run = 1
  /\ first = [rootElements |-> <<>>, elementMap |-> <<>>]

DepInit ==
  /\ build \in {"resource", "pattern"}
  /\ stages \in SeqsUpTo(StagePool, MaxStages)
  /\ \E n \in 0..MaxSubsheets :
       /\ n <= Len(SubsheetPool)
       /\ subsheets = SubSeq(SubsheetPool, 1, n)
  /\ vbos = <<>>
  /\ pass = 0
  /\ idx = 1
  /\ pc = "scan"
  /\ result = <<>>

Init == DepInit /\ TreeIdle /\ RouteIdle /\ ElemIdle /\ CallIdle /\ MoreIdle

\* One iteration of stages.forEach in the resource-tag build.
ScanResourceStage ==
  /\ pc = "scan"
  /\ build = "resource"
  /\ idx <= Len(PassStages(pass))
  /\ vbos' = ExtractResourceStage(vbos, PassStages(pass)[idx], PassLocation(pass))
  /\ idx' = idx + 1
  /\ UNCHANGED <<build, stages, subsheets, pass, pc, result>>
  /\ UNCHANGED <<treeVars, routeVars, elemVars, callVars, moreVars>>

\* One iteration of stages.forEach in the name-pattern build.
ScanPatternStage ==
  /\ pc = "scan"
  /\ build = "pattern"
  /\ idx <= Len(PassStages(pass))
  /\ vbos' = ExtractPatternStage(vbos, PassStages(pass)[idx], PassLocation(pass))
  /\ idx' = idx + 1
  /\ UNCHANGED <<build, stages, subsheets, pass, pc, result>>
  /\ UNCHANGED <<treeVars, routeVars, elemVars, callVars, moreVars>>

\* subsheets.forEach: the scan of one pass is over, the next subsheet's begins.
NextSubsheet ==
  /\ pc = "scan"
  /\ idx > Len(PassStages(pass))
  /\ pass < Len(subsheets)
  /\ pass' = pass + 1
  /\ idx' = 1
  /\ UNCHANGED <<build, stages, subsheets, vbos, pc, result>>
  /\ UNCHANGED <<treeVars, routeVars, elemVars, callVars, moreVars>>

\* return Array.from(vbos.values())
ReturnDependencies ==
  /\ pc = "scan"
  /\ idx > Len(PassStages(pass))
  /\ pass = Len(subsheets)
  /\ result' = vbos
  /\ pc' = "done"
  /\ UNCHANGED <<build, stages, subsheets, vbos, pass, idx>>
  /\ UNCHANGED <<treeVars, routeVars, elemVars, callVars, moreVars>>

Next ==
  \/ ScanResourceStage
  \/ ScanPatternStage
  \/ NextSubsheet
  \/ ReturnDependencies

Spec == Init /\ [][Next]_vars

\* ------------------------------------------------------------ buildElementTree
\* Inputs: a flat VBOElement list. The id is the element's identity, so the
\* ids of one list are pairwise distinct; parentId is absent, the id of an
\* element of the pool, or an id that no element carries.
ElemIds == <<ELEM_ID_1, ELEM_ID_2, ELEM_ID_3, ELEM_ID_4>>
ElemNames == <<ELEM_ROOT, ELEM_CHILD, ELEM_LEAF, ELEM_ITEM>>
ElemCount == IF MaxElems <= Len(ElemIds) THEN MaxElems ELSE Len(ElemIds)

ParentChoices == {Undefined, ELEM_ID_ABSENT} \cup {ElemIds[i] : i \in 1..ElemCount}

Element(i, parentId) == [id |-> ElemIds[i], name |-> ElemNames[i], parentId |-> parentId]

\* The lists given to the first build: any subset of the pool in pool order,
\* each element with any parentId. Every other order is reached by Reorder.
RECURSIVE ListsFrom(_)
ListsFrom(i) ==
  IF i > ElemCount THEN { <<>> }
  ELSE LET rest == ListsFrom(i + 1) IN
       rest \cup { <<Element(i, p)>> \o l : p \in ParentChoices, l \in rest }

\* Map.prototype.get: position of the key, 0 if absent.
MapIndex(map, key) ==
  IF \E i \in 1..Len(map) : map[i].id = key
    THEN CHOOSE i \in 1..Len(map) : map[i].id = key
    ELSE 0

\* elementMap.set(element.id, { ...element, children: [] }): a new key is
\* appended, an existing key keeps its place and gets the new value.
MapSet(map, element) ==
  LET node == [id |-> element.id, name |-> element.name,
               parentId |-> element.parentId, children |-> <<>>]
      i == MapIndex(map, element.id)
  IN IF i = 0 THEN Append(map, node) ELSE [map EXCEPT ![i] = node]

\* parent.children.push(elementWithChildren); a node is referred to by the
\* key under which the map holds it.
PushChild(map, parentId, childId) ==
  LET i == MapIndex(map, parentId)
  IN IF i = 0 THEN map
     ELSE [map EXCEPT ![i].children = Append(@, childId)]

TreeInit ==
  /\ elements \in ListsFrom(1)
  /\ elementMap = <<>>
  /\ rootElements = <<>>
  /\ tpc = "map"
  /\ tidx = 1
  /\ run = 1
  /\ first = [rootElements |-> <<>>, elementMap |-> <<>>]

InitTree == TreeInit /\ DepIdle /\ RouteIdle /\ ElemIdle /\ CallIdle /\ MoreIdle

\* First forEach: one elementMap.set.
MapElement ==
  /\ tpc = "map"
  /\ tidx <= Len(elements)
  /\ elementMap' = MapSet(elementMap, elements[tidx])
  /\ tidx' = tidx + 1
  /\ UNCHANGED <<elements, rootElements, tpc, run, first>>
  /\ UNCHANGED <<depVars, routeVars, elemVars, callVars, moreVars>>

\* The first forEach is over, the second begins.
StartLinking ==
  /\ tpc = "map"
  /\ tidx > Len(elements)
  /\ tpc' = "link"
  /\ tidx' = 1
  /\ UNCHANGED <<elements, elementMap, rootElements, run, first>>
  /\ UNCHANGED <<depVars, routeVars, elemVars, callVars, moreVars>>

\* Mutant: a single pass, in which a parent is found only if it precedes
\* the element in the list.
LinkElement_SinglePass ==
  /\ tpc = "link"
  /\ tidx <= Len(elements)
  /\ LET element == elements[tidx] IN
       IF Truthy(element.parentId)
         THEN /\ elementMap' =
                   IF \E k \in 1..(tidx - 1) : elements[k].id = element.parentId
                     THEN PushChild(elementMap, element.parentId, element.id)
                     ELSE elementMap
              /\ rootElements' = rootElements
         ELSE /\ rootElements' = Append(rootElements, element.id)
              /\ elementMap' = elementMap
  /\ tidx' = tidx + 1
  /\ UNCHANGED <<elements, tpc, run, first>>
  /\ UNCHANGED <<depVars, routeVars, elemVars, callVars, moreVars>>

\* Second forEach, one element: link it to its parent or make it a root.
LinkElement ==
  /\ tpc = "link"
  /\ tidx <= Len(elements)
  /\ LET element == elements[tidx] IN
       IF Truthy(element.parentId)
         THEN /\ elementMap' = PushChild(elementMap, element.parentId, element.id)
              /\ rootElements' = rootElements
         ELSE /\ rootElements' = Append(rootElements, element.id)
              /\ elementMap' = elementMap
  /\ tidx' = tidx + 1
  /\ UNCHANGED <<elements, tpc, run, first>>
  /\ UNCHANGED <<depVars, routeVars, elemVars, callVars, moreVars>>

\* return rootElements
ReturnRoots ==
  /\ tpc = "link"
  /\ tidx > Len(elements)
  /\ tpc' = "done"
  /\ UNCHANGED <<elements, elementMap, rootElements, tidx, run, first>>
  /\ UNCHANGED <<depVars, routeVars, elemVars, callVars, moreVars>>

\* The caller builds the tree again from the same elements in another order.
Reorder ==
  /\ tpc = "done"
  /\ run = 1
  /\ \E f \in Permutations(1..Len(elements)) :
       elements' = [i \in 1..Len(elements) |-> elements[f[i]]]
  /\ first' = [rootElements |-> rootElements, elementMap |-> elementMap]
  /\ elementMap' = <<>>
  /\ rootElements' = <<>>
  /\ tpc' = "map"
  /\ tidx' = 1
  /\ run' = 2
  /\ UNCHANGED <<depVars, routeVars, elemVars, callVars, moreVars>>

NextTree ==
  \/ MapElement
  \/ StartLinking
  \/ LinkElement
  \/ ReturnRoots
  \/ Reorder

SpecTree == InitTree /\ [][NextTree]_vars

\* ------------------------------------------------- the inputs of the routes
StageDate ==
  RouteStage(NAME_GET_DATE, ID_S1, <<Res(VBO_DATE, ACT_GET_CURRENT_DATE)>>,
             STAGE_TYPE_ACTION, STAGE_ID_1)
StageFormat ==
  RouteStage(NAME_EXCEL_OPEN, Undefined, <<Res(VBO_DATE, ACT_FORMAT_DATE)>>,
             STAGE_TYPE_ACTION, STAGE_ID_1)
StageInfo ==
  RouteStage(STAGE_ACTION, Undefined, <<>>, SUBSHEET_INFO, STAGE_ID_1)

AppdefSmall ==
  [element |-> <<ElementNode(ELEM_ROOT, ELEM_ID_1, Undefined, Undefined,
                   <<ElementNode(ELEM_CHILD, ELEM_ID_2, Undefined, Undefined, <<>>, <<>>)>>,
                   <<>>)>>,
   group |-> <<>>]
AppdefBareElement ==
  [element |-> <<BareElementNode(ELEM_ID_1, Undefined, <<>>, <<>>)>>, group |-> <<>>]

ProcessOrders ==
  ProcessNode(PROC_ORDERS, VERSION_2, NARRATIVE_TEXT, <<StageDate, StageInfo>>,
              <<Subsheet(ID_S1, SHEET_A)>>, <<AppdefSmall>>)
ProcessBilling ==
  ProcessNode(PROC_BILLING, Undefined, Undefined, <<StageFormat>>, <<>>, <<>>)
ProcessNoValues ==
  ProcessNode(Undefined, Undefined, Undefined, <<StageDate>>, <<>>, <<>>)
ProcessBareRoot == BareProcessNode(<<StageDate>>, <<>>, <<>>)
ProcessBareStage ==
  ProcessNode(PROC_ORDERS, VERSION_2, Undefined, <<StageDate, BareStage>>, <<>>, <<>>)
ProcessBareSubsheet ==
  ProcessNode(PROC_ORDERS, VERSION_2, Undefined, <<StageDate>>,
              <<BareSubsheet(SHEET_A)>>, <<>>)
ProcessBareElement ==
  ProcessNode(PROC_ORDERS, VERSION_2, Undefined, <<StageInfo>>, <<>>,
              <<AppdefBareElement>>)

ProcessNodes ==
  { ProcessOrders, ProcessBilling, ProcessNoValues, ProcessBareRoot,
    ProcessBareStage, ProcessBareSubsheet, ProcessBareElement, EmptyElement }

\* The <process> items and the <object> references a release may list.
ProcessItemPool ==
  { ProcessItem(PROC_ID_1, PROC_ORDERS, <<ProcessOrders>>),
    ProcessItem(PROC_ID_2, Undefined, <<ProcessBilling>>),
    ProcessItem(Undefined, PROC_BILLING, <<ProcessBilling>>),
    ProcessItem(PROC_ID_1, PROC_ORDERS, <<>>),
    BareProcessItem(<<ProcessOrders>>) }

ObjectRefPool == { ObjectRef(VBO_ID_A), ObjectRef(VBO_ID_B), ObjectRef(Undefined), EmptyElement }

ReleaseNodes ==
  { ReleaseNode(REL_NAME, PKG_NAME, Undefined, Undefined, Undefined,
                <<Contents(items, IF refs = <<>> THEN <<>>
                                  ELSE <<ObjectGroup(<<Members(refs)>>)>>)>>) :
      items \in SeqsUpTo(ProcessItemPool, MaxItems),
      refs \in SeqsUpTo(ObjectRefPool, MaxItems) }

\* Documents every route is tried with, under every file name and MIME type.
CoreDocuments ==
  { Malformed, Document("html", EmptyElement) }
  \cup { Document("process", node) : node \in ProcessNodes }
  \cup { Document("bpr:release", EmptyElement),
         Document("bpr:release",
                  ReleaseNode(Undefined, Undefined, Undefined, Undefined, Undefined, <<>>)),
         Document("bpr:release",
                  ReleaseNode(REL_NAME, PKG_NAME, Undefined, Undefined, Undefined,
                     <<Contents(<<ProcessItem(PROC_ID_1, PROC_ORDERS, <<ProcessOrders>>)>>,
                                <<ObjectGroup(<<Members(<<ObjectRef(VBO_ID_A)>>)>>),
                                  ObjectGroup(<<>>),
                                  ObjectGroup(<<Members(<<ObjectRef(VBO_ID_A)>>),
                                                Members(<<ObjectRef(VBO_ID_B)>>)>>)>>)>>)) }

FileNames == { FILE_PROCESS, FILE_OBJECT, FILE_RELEASE, FILE_OTHER }
MimeTypes == { MIME_TEXT_XML, MIME_OCTET }

Uploads ==
  { NoFile }
  \cup { UploadedFile(n, m, c) : n \in FileNames, m \in MimeTypes, c \in CoreDocuments }
  \cup { UploadedFile(FILE_RELEASE, MIME_OCTET, Document("bpr:release", node)) :
           node \in ReleaseNodes }

RouteInit ==
  /\ route \in {"analyze", "analyze-vbo", "analyze-release"}
  /\ file \in Uploads
  /\ hpc = "upload"
  /\ parsed = NotParsed
  /\ analysisData = NoData
  /\ res = NoResponse
  /\ analyses = <<>>
  /\ currentId = 1

InitRoutes == RouteInit /\ DepIdle /\ TreeIdle /\ ElemIdle /\ CallIdle /\ MoreIdle

\* return res.status(status).json({ message })
Reply(status, message) ==
  /\ res' = [status |-> status, body |-> ErrorBody(message)]
  /\ hpc' = "done"
  /\ UNCHANGED analysisData

\* The handler goes on to validation and to the await of the storage call.
Proceed(data) ==
  /\ analysisData' = data
  /\ hpc' = "store"
  /\ UNCHANGED res

\* upload.single('file'): a file the filter refuses ends the request with the
\* filter's error; a request without a file reaches the handler.
Upload ==
  /\ hpc = "upload"
  /\ IF HasFile(file) /\ ~FileFilter(file)
       THEN /\ res' = [status |-> 500, body |-> ErrorBody(MSG_ONLY_ALLOWED)]
            /\ hpc' = "done"
       ELSE /\ hpc' = "handler"
            /\ UNCHANGED res
  /\ UNCHANGED <<route, file, parsed, analysisData, analyses, currentId>>
  /\ UNCHANGED <<depVars, treeVars, elemVars, callVars, moreVars>>

\* /api/analyze up to the await of parseString.
BeginAnalyze ==
  /\ hpc = "handler"
  /\ route = "analyze"
  /\ IF ~HasFile(file) THEN Reply(400, MSG_NO_FILE)
     ELSE hpc' = "parsing" /\ UNCHANGED <<res, analysisData>>
  /\ UNCHANGED <<route, file, parsed, analyses, currentId>>
  /\ UNCHANGED <<depVars, treeVars, elemVars, callVars, moreVars>>

\* /api/analyze-vbo up to the await of parseString.
BeginAnalyzeVbo ==
  /\ hpc = "handler"
  /\ route = "analyze-vbo"
  /\ IF ~HasFile(file) THEN Reply(400, MSG_NO_FILE)
     ELSE IF ~EndsWith(file.originalname, EXT_BPOBJECT) THEN Reply(400, MSG_TYPE_OBJECT)
     ELSE hpc' = "parsing" /\ UNCHANGED <<res, analysisData>>
  /\ UNCHANGED <<route, file, parsed, analyses, currentId>>
  /\ UNCHANGED <<depVars, treeVars, elemVars, callVars, moreVars>>

\* /api/analyze-release up to the await of parseString.
BeginAnalyzeRelease ==
  /\ hpc = "handler"
  /\ route = "analyze-release"
  /\ IF ~HasFile(file) THEN Reply(400, MSG_NO_FILE)
     ELSE IF ~EndsWith(file.originalname, EXT_BPRELEASE) THEN Reply(400, MSG_TYPE_RELEASE)
     ELSE hpc' = "parsing" /\ UNCHANGED <<res, analysisData>>
  /\ UNCHANGED <<route, file, parsed, analyses, currentId>>
  /\ UNCHANGED <<depVars, treeVars, elemVars, callVars, moreVars>>

\* A handler that takes a rejected parse for an empty document.
ParseFailed_Ignored(message) ==
  /\ parsed' = Document("none", EmptyElement)
  /\ Proceed([fileName |-> file.originalname])

\* catch (error): the promise of parseString was rejected.
ParseFailed(message) ==
  /\ UNCHANGED parsed
  /\ Reply(500, message)

\* A handler that answers a missing root as it answers a parse failure.
RootMissing_AsParseFailure(message) == Reply(500, MSG_XML_ERROR)

\* if (!result[root]) return res.status(400).json({ message })
RootMissing(message) == Reply(400, message)

\* catch (error) for a TypeError, or the handler's own result.
Finish(outcome) ==
  IF outcome.threw THEN Reply(500, MSG_TYPE_ERROR) ELSE Proceed(outcome.value)

\* /api/analyze from the parser's answer to the await of the storage call.
AnalyzeParsed ==
  /\ hpc = "parsing"
  /\ route = "analyze"
  /\ LET answer == parseString(file.content) IN
     IF answer.threw THEN ParseFailed(MSG_XML_ERROR)
     ELSE /\ parsed' = answer.value
          /\ LET process == RootOf(answer.value, "process") IN
             IF ~NodeTruthy(process) THEN RootMissing(MSG_INVALID_PROCESS)
             ELSE Finish(ProcessAnalysisData(file, process))
  /\ UNCHANGED <<route, file, analyses, currentId>>
  /\ UNCHANGED <<depVars, treeVars, elemVars, callVars, moreVars>>

\* /api/analyze-vbo from the parser's answer to the await of the storage call.
AnalyzeVboParsed ==
  /\ hpc = "parsing"
  /\ route = "analyze-vbo"
  /\ LET answer == parseString(file.content) IN
     IF answer.threw THEN ParseFailed(MSG_XML_ERROR)
     ELSE /\ parsed' = answer.value
          /\ LET process == RootOf(answer.value, "process") IN
             IF ~NodeTruthy(process) THEN RootMissing(MSG_INVALID_OBJECT)
             ELSE Finish(VBOAnalysisData(file, process))
  /\ UNCHANGED <<route, file, analyses, currentId>>
  /\ UNCHANGED <<depVars, treeVars, elemVars, callVars, moreVars>>

\* /api/analyze-release from the parser's answer to the await of the storage
\* call.
AnalyzeReleaseParsed ==
  /\ hpc = "parsing"
  /\ route = "analyze-release"
  /\ LET answer == parseString(file.content) IN
     IF answer.threw THEN ParseFailed(MSG_XML_ERROR)
     ELSE /\ parsed' = answer.value
          /\ LET releaseData == RootOf(answer.value, "bpr:release") IN
             IF ~NodeTruthy(releaseData) THEN RootMissing(MSG_INVALID_RELEASE)
             ELSE Finish(ReleaseAnalysisData(file, releaseData))
  /\ UNCHANGED <<route, file, analyses, currentId>>
  /\ UNCHANGED <<depVars, treeVars, elemVars, callVars, moreVars>>

\* storage.create...Analysis(validatedData) and res.json(savedAnalysis):
\* const id = this.currentId++; this.analyses.set(id, { ...insertAnalysis, id }).
StoreAnalysis ==
  /\ hpc = "store"
  /\ LET saved == analysisData @@ [id |-> currentId] IN
       /\ analyses' = Append(analyses, saved)
       /\ res' = [status |-> 200, body |-> saved]
  /\ currentId' = currentId + 1
  /\ hpc' = "done"
  /\ UNCHANGED <<route, file, parsed, analysisData>>
  /\ UNCHANGED <<depVars, treeVars, elemVars, callVars, moreVars>>

NextRoutes ==
  \/ Upload
  \/ BeginAnalyze
  \/ BeginAnalyzeVbo
  \/ BeginAnalyzeRelease
  \/ AnalyzeParsed
  \/ AnalyzeVboParsed
  \/ AnalyzeReleaseParsed
  \/ StoreAnalysis

SpecRoutes == InitRoutes /\ [][NextRoutes]_vars

\* ------------------------------------------- extractVBOElements on its own
MaxDepth == 3
MaxAttrs == 2

\* An appdef whose nodes form one chain: every link is an <element> or a
\* <group>, complete, without a name, without an id, or without attributes.
ChainLinks ==
  [tag : {"element", "group"}, kind : {"ok", "noName", "noId", "bare"}]

\* A complete leaf node standing after the chain's node at one level.
SiblingNode ==
  ElementNode(ELEM_SIBLING, ELEM_ID_SIBLING, Undefined, Undefined, <<>>, <<>>)

RECURSIVE NodeOfChain(_, _, _)

\* The array holding the chain's node of level d, followed by the sibling
\* when s = d.
LevelOfChain(chain, d, s) ==
  <<NodeOfChain(chain, d, s)>> \o (IF s = d THEN <<SiblingNode>> ELSE <<>>)

NodeOfChain(chain, d, s) ==
  LET link == chain[d]
      below == IF d < Len(chain) THEN LevelOfChain(chain, d + 1, s) ELSE <<>>
      belowTag == IF d < Len(chain) THEN chain[d + 1].tag ELSE "none"
      element == IF belowTag = "element" THEN below ELSE <<>>
      group == IF belowTag = "group" THEN below ELSE <<>>
      id == IF link.kind = "noId" THEN Undefined ELSE ElemIds[d]
  IN IF link.kind = "bare"
       THEN BareElementNode(id, Undefined, element, group)
       ELSE ElementNode(IF link.kind = "noName" THEN Undefined ELSE ElemNames[d],
                        id, Undefined, Undefined, element, group)

AppdefOfChain(chain, s) ==
  IF chain = <<>> THEN [element |-> <<>>, group |-> <<>>]
  ELSE [element |-> IF chain[1].tag = "element" THEN LevelOfChain(chain, 1, s) ELSE <<>>,
        group |-> IF chain[1].tag = "group" THEN LevelOfChain(chain, 1, s) ELSE <<>>]

InitElements ==
  /\ appdef \in {<<>>} \cup { <<AppdefOfChain(chain, s)>> :
                               chain \in SeqsUpTo(ChainLinks, MaxDepth), s \in 0..MaxDepth }
  /\ xpc = "extract"
  /\ extracted = <<>>
  /\ DepIdle /\ TreeIdle /\ RouteIdle /\ CallIdle /\ MoreIdle

\* const elements = extractVBOElements(result.process.appdef || [])
ExtractElements ==
  /\ xpc = "extract" /\ extractor = "server"
  /\ LET outcome == extractVBOElements(appdef) IN
       IF outcome.threw
         THEN xpc' = "thrown" /\ UNCHANGED extracted
         ELSE xpc' = "done" /\ extracted' = outcome.value
  /\ UNCHANGED appdef
  /\ UNCHANGED <<depVars, treeVars, routeVars, callVars, moreVars>>

NextElements == ExtractElements

SpecElements == InitElements /\ [][NextElements]_vars

\* ------------------------------------------------- calls that interleave
MaxCalls == 2

\* A call of the engine on behalf of one request: extractDependencies in one
\* of its builds, or extractVBOElements, applied to the request's own
\* document.
CallInputs ==
  [kind : {"dependencies", "elements"}, build : {"resource", "pattern"},
   input : {ProcessOrders, ProcessBilling, ProcessBareStage}]

InitCalls ==
  /\ calls = <<>>
  /\ DepIdle /\ TreeIdle /\ RouteIdle /\ ElemIdle /\ MoreIdle

\* A request arrives and waits for its parse.
StartCall ==
  /\ Len(calls) < MaxCalls
  /\ \E c \in CallInputs :
       calls' = Append(calls, [kind |-> c.kind, build |-> c.build, input |-> c.input,
                               pc |-> "parsing", result |-> Returned(<<>>)])
  /\ UNCHANGED <<depVars, treeVars, routeVars, elemVars, moreVars>>

\* The parse of one request resolved: its handler runs the engine, which is
\* synchronous, and then waits for the storage.
RunCall ==
  /\ \E i \in 1..Len(calls) :
       /\ calls[i].pc = "parsing"
       /\ calls' = [calls EXCEPT
            ![i].pc = "returned",
            ![i].result = IF calls[i].kind = "dependencies"
                            THEN extractDependencies(calls[i].build, calls[i].input)
                            ELSE extractVBOElements(calls[i].input.appdef)]
  /\ UNCHANGED <<depVars, treeVars, routeVars, elemVars, moreVars>>

\* The storage call of one request resolved: its response is sent.
RespondCall ==
  /\ \E i \in 1..Len(calls) :
       /\ calls[i].pc = "returned"
       /\ calls' = [calls EXCEPT ![i].pc = "responded"]
  /\ UNCHANGED <<depVars, treeVars, routeVars, elemVars, moreVars>>

NextCalls ==
  \/ StartCall
  \/ RunCall
  \/ RespondCall

SpecCalls == InitCalls /\ [][NextCalls]_vars

\* =================================================================== claims
\* ------------------------------------------- vocabulary of the claims C1..C8
NoDuplicates(seq) == \A i, j \in 1..Len(seq) : i # j => seq[i] # seq[j]

Range(seq) == {seq[i] : i \in 1..Len(seq)}

RECURSIVE SumUsage(_)
SumUsage(entries) ==
  IF entries = <<>> THEN 0
  ELSE entries[1].usageCount + SumUsage(Tail(entries))

\* The stage visits of scan number p, and the visits made so far.
VisitsOfPass(p) ==
  [i \in 1..Len(PassStages(p)) |->
     [stage |-> PassStages(p)[i], location |-> PassLocation(p)]]

RECURSIVE VisitsBefore(_)
VisitsBefore(p) ==
  IF p = 0 THEN <<>> ELSE VisitsBefore(p - 1) \o VisitsOfPass(p - 1)

VisitsDone ==
  IF pc = "idle" THEN <<>>
  ELSE VisitsBefore(pass) \o SubSeq(VisitsOfPass(pass), 1, idx - 1)

HasFullResource(s) ==
  /\ Len(s.resource) > 0
  /\ Truthy(s.resource[1].object)
  /\ Truthy(s.resource[1].action)

\* The ordered list the specification gives for the name-pattern strategy.
ClaimPatterns ==
  << <<PAT_EXCEL, VBO_EXCEL>>, <<PAT_EMAIL, VBO_EMAIL>>,
     <<PAT_COLLECTION, VBO_COLLECTION>>, <<PAT_FILE, VBO_FILE>>,
     <<PAT_STRING, VBO_STRINGS>>, <<PAT_DATE, VBO_DATE>>,
     <<PAT_MATH, VBO_MATH>>, <<PAT_ENVIRONMENT, VBO_ENVIRONMENT>>,
     <<PAT_SAP, VBO_SAP>>, <<PAT_WEB, VBO_WEB>>,
     <<PAT_DATABASE, VBO_DATABASE>> >>

MatchingEntries(name) ==
  IF Truthy(name)
    THEN {k \in 1..Len(ClaimPatterns) : RegexTestI(ClaimPatterns[k][1], name)}
    ELSE {}

\* The canonical VBO of the earliest matching entry, Undefined if none matches.
PatternVBO(name) ==
  LET m == MatchingEntries(name) IN
  IF m = {} THEN Undefined
  ELSE ClaimPatterns[CHOOSE k \in m : \A l \in m : k <= l][2]

\* What the running build is to recognise in a stage: the VBO and the action,
\* Undefined when the stage is no invocation for that build.
RecognisedVBO(s) ==
  IF build = "resource"
    THEN IF HasFullResource(s) THEN s.resource[1].object ELSE Undefined
    ELSE PatternVBO(s.name)

RecognisedAction(s) ==
  IF build = "resource"
    THEN IF HasFullResource(s) THEN s.resource[1].action ELSE Undefined
    ELSE IF PatternVBO(s.name) # Undefined THEN extractActionName(s.name)
         ELSE Undefined

\* The one location the specification gives a stage: the name of the subsheet
\* whose id is the stage's subsheetid, "Main Process" otherwise.
ClaimLocation(s) ==
  IF \E k \in 1..Len(subsheets) : subsheets[k].subsheetid = s.subsheetid
    THEN SubsheetName(subsheets[CHOOSE k \in 1..Len(subsheets) :
                                   subsheets[k].subsheetid = s.subsheetid])
    ELSE MAIN_PROCESS

\* The canonical VBO of each visit made so far, by the name-pattern list.
RECURSIVE PatternVBOsOf(_)
PatternVBOsOf(visits) ==
  IF visits = <<>> THEN <<>>
  ELSE <<PatternVBO(Head(visits).stage.name)>> \o PatternVBOsOf(Tail(visits))

StagesOfVBO(n) == {i \in 1..Len(stages) : RecognisedVBO(stages[i]) = n}

VisitsOfVBO(n) ==
  {i \in 1..Len(VisitsDone) : RecognisedVBO(VisitsDone[i].stage) = n}

VisitsOfAction(n, a) ==
  {i \in 1..Len(VisitsDone) :
     /\ RecognisedVBO(VisitsDone[i].stage) = n
     /\ RecognisedAction(VisitsDone[i].stage) = a}

\* C1: in the output every invoking stage is counted exactly once, under the
\* one location of its subsheet ("Main Process" without subsheetid): each
\* dependency's usageCount is the number of stages that invoke it and its
\* locations are exactly the locations of those stages.
Claim_C1_CountedOnceUnderOneLocation ==
  pc = "done" =>
    \A i \in 1..Len(result) :
      /\ result[i].usageCount = Cardinality(StagesOfVBO(result[i].name))
      /\ Range(result[i].locations) =
           {ClaimLocation(stages[k]) : k \in StagesOfVBO(result[i].name)}

\* C2: the returned list holds no two entries with the same name (nor does
\* the map at any moment of the scan), and its length is the number of
\* distinct VBO names recognised in the stages.
Thm_C2_OneEntryPerName ==
  /\ NoDuplicates([i \in 1..Len(vbos) |-> vbos[i].name])
  /\ pc = "done" =>
       /\ NoDuplicates([i \in 1..Len(result) |-> result[i].name])
       /\ Len(result) =
            Cardinality({RecognisedVBO(stages[i]) : i \in 1..Len(stages)}
                          \ {Undefined})

Wit_C2_RepeatedNameTwoEntries ==
  /\ pc = "done"
  /\ Len(result) = 2
  /\ \E i \in 1..Len(result) : result[i].usageCount >= 2

\* C3: at every step of the scan each dependency's usageCount is the sum of
\* the usageCounts of its actions and the number of stage visits made so far
\* that were attributed to it.
Thm_C3_UsageCountIsSumAndVisits ==
  \A i \in 1..Len(vbos) :
    /\ vbos[i].usageCount = SumUsage(vbos[i].actions)
    /\ vbos[i].usageCount = Cardinality(VisitsOfVBO(vbos[i].name))

Wit_C3_MidScanSeveralActions ==
  /\ pc = "scan"
  /\ \E i \in 1..Len(vbos) :
       /\ vbos[i].usageCount >= 3
       /\ Len(vbos[i].actions) >= 2

\* C4: for every dependency and every action, locations holds no string
\* twice and has at most usageCount entries.
Thm_C4_LocationsAreASet ==
  \A i \in 1..Len(vbos) :
    /\ NoDuplicates(vbos[i].locations)
    /\ Len(vbos[i].locations) <= vbos[i].usageCount
    /\ \A k \in 1..Len(vbos[i].actions) :
         /\ NoDuplicates(vbos[i].actions[k].locations)
         /\ Len(vbos[i].actions[k].locations) <= vbos[i].actions[k].usageCount

Wit_C4_SameLocationTwice ==
  \E i \in 1..Len(vbos) :
    /\ Len(vbos[i].locations) < vbos[i].usageCount
    /\ \E k \in 1..Len(vbos[i].actions) :
         Len(vbos[i].actions[k].locations) < vbos[i].actions[k].usageCount

\* C5: a stage with a resource descriptor that has object and action is
\* recorded under that object as VBO name and that action as action name,
\* whatever its display name.
Claim_C5_ResourceDescriptorVerbatim ==
  pc = "done" =>
    \A i \in 1..Len(stages) :
      HasFullResource(stages[i]) =>
        \E v \in 1..Len(result) :
          /\ result[v].name = stages[i].resource[1].object
          /\ \E a \in 1..Len(result[v].actions) :
               result[v].actions[a].name = stages[i].resource[1].action

\* C6: a stage without a complete resource descriptor is classified by the
\* name-pattern list: each visit of a stage whose name matches contributes one
\* usage of the canonical VBO, a stage whose name matches nothing contributes
\* nothing.
Claim_C6_PatternFallback ==
  (pc = "done" /\ \A i \in 1..Len(stages) : ~HasFullResource(stages[i])) =>
    LET pv == PatternVBOsOf(VisitsDone) IN
    /\ \A k \in 1..Len(ClaimPatterns) :
         LET visits == {i \in 1..Len(pv) : pv[i] = ClaimPatterns[k][2]}
             hits == {v \in 1..Len(result) : result[v].name = ClaimPatterns[k][2]}
         IN IF visits = {} THEN hits = {}
            ELSE \E v \in hits : result[v].usageCount = Cardinality(visits)
    /\ \A v \in 1..Len(result) :
         \E k \in 1..Len(ClaimPatterns) : result[v].name = ClaimPatterns[k][2]

\* C7: in the name-pattern build every visit of a stage increments exactly
\* one VBO, the one of the earliest matching entry of the ordered list: each
\* canonical VBO's usageCount is the number of visits whose earliest match it
\* is, and a VBO without such a visit has no entry.
Thm_C7_FirstMatchWins ==
  build = "pattern" =>
    LET pv == PatternVBOsOf(VisitsDone) IN
    /\ \A k \in 1..Len(ClaimPatterns) :
         LET visits == {i \in 1..Len(pv) : pv[i] = ClaimPatterns[k][2]}
             hits == {v \in 1..Len(vbos) : vbos[v].name = ClaimPatterns[k][2]}
         IN IF visits = {} THEN hits = {}
            ELSE \E v \in hits : vbos[v].usageCount = Cardinality(visits)
    /\ SumUsage(vbos) = Cardinality({i \in 1..Len(pv) : pv[i] # Undefined})

Wit_C7_ExcelDatabaseExport ==
  /\ build = "pattern"
  /\ pc = "done"
  /\ \E i \in 1..Len(stages) : stages[i].name = NAME_EXCEL_DB
  /\ \E v \in 1..Len(result) : result[v].name = VBO_EXCEL /\ result[v].usageCount >= 1
  /\ \A v \in 1..Len(result) : result[v].name # VBO_DATABASE

\* C8: within a dependency no two actions have the same name; an action
\* invoked from several locations is one entry whose usageCount is the number
\* of its invocations and whose locations are the locations of those
\* invocations.
Claim_C8_ActionsDedupByName ==
  pc = "done" =>
    \A v \in 1..Len(result) :
      /\ NoDuplicates([a \in 1..Len(result[v].actions) |-> result[v].actions[a].name])
      /\ \A a \in 1..Len(result[v].actions) :
           LET act == result[v].actions[a]
               visits == VisitsOfAction(result[v].name, act.name)
           IN /\ act.usageCount = Cardinality(visits)
              /\ Range(act.locations) = {VisitsDone[i].location : i \in visits}

\* ------------------------------------------ vocabulary of the claims C9, C10
ChildrenOf(map, id) ==
  IF MapIndex(map, id) = 0 THEN <<>> ELSE map[MapIndex(map, id)].children

\* Depth-first (pre-order) flattening of the nodes below the given ids; depth
\* bounds the descent.
RECURSIVE FlattenTree(_, _, _)
FlattenTree(map, ids, depth) ==
  IF ids = <<>> \/ depth = 0 THEN <<>>
  ELSE <<Head(ids)>> \o FlattenTree(map, ChildrenOf(map, Head(ids)), depth - 1)
                     \o FlattenTree(map, Tail(ids), depth)

ElementIds == {elements[i].id : i \in 1..Len(elements)}

\* The parent-to-children relation and the root set of a built tree.
ChildPairs(map) ==
  UNION { {<<map[i].id, map[i].children[k]>> : k \in 1..Len(map[i].children)} :
          i \in 1..Len(map) }

AllParentsPresent ==
  \A i \in 1..Len(elements) :
    Truthy(elements[i].parentId) => elements[i].parentId \in ElementIds

\* C9: flattening the built tree depth-first yields exactly the ids of the
\* flat list, each once, and every node of the tree lies under the node whose
\* id is its parentId (a root has none), for any list, also one with a
\* parentId that no element carries.
Claim_C9_TreeRoundTrip ==
  tpc = "done" =>
    LET flat == FlattenTree(elementMap, rootElements, Len(elements) + 1) IN
    /\ Len(flat) = Len(elements)
    /\ Range(flat) = ElementIds
    /\ \A i \in 1..Len(rootElements) :
         ~Truthy(elementMap[MapIndex(elementMap, rootElements[i])].parentId)
    /\ \A pr \in ChildPairs(elementMap) :
         elementMap[MapIndex(elementMap, pr[2])].parentId = pr[1]

\* C10: for a list in which every parentId is the id of an element of the
\* list, the tree built from any reordering of the list has the same root set
\* and the same parent-to-children relation as the tree built from the list:
\* the roots are the elements without parentId and each other element is a
\* child of exactly the node its parentId names.
Thm_C10_OrderIndependentLinking ==
  (tpc = "done" /\ run = 2 /\ AllParentsPresent) =>
    /\ Range(rootElements) = Range(first.rootElements)
    /\ ChildPairs(elementMap) = ChildPairs(first.elementMap)
    /\ Range(rootElements) =
         {elements[i].id : i \in {k \in 1..Len(elements) : ~Truthy(elements[k].parentId)}}
    /\ ChildPairs(elementMap) =
         {<<elements[i].parentId, elements[i].id>> :
            i \in {k \in 1..Len(elements) : Truthy(elements[k].parentId)}}

\* Scenario D with the child given before its parent.
Wit_C10_ChildBeforeParent ==
  /\ tpc = "done"
  /\ run = 2
  /\ elements = <<Element(2, ELEM_ID_1), Element(1, Undefined)>>
  /\ rootElements = <<ELEM_ID_1>>
  /\ ChildrenOf(elementMap, ELEM_ID_1) = <<ELEM_ID_2>>
  /\ elementMap[MapIndex(elementMap, ELEM_ID_1)].name = ELEM_ROOT
  /\ elementMap[MapIndex(elementMap, ELEM_ID_2)].name = ELEM_CHILD

\* ---------------------------------------- vocabulary of the claims C11..C19
MalformedUpload == HasFile(file) /\ "malformed" \in DOMAIN file.content

\* The root tag the handler of the route looks for, and its answer when the
\* parsed document has another root.
ExpectedRoot == IF route = "analyze-release" THEN "bpr:release" ELSE "process"
InvalidFormatMessage ==
  CASE route = "analyze" -> MSG_INVALID_PROCESS
    [] route = "analyze-vbo" -> MSG_INVALID_OBJECT
    [] OTHER -> MSG_INVALID_RELEASE

\* parseString resolved with a document that lacks the root of the route.
RootMissingAfterParse ==
  /\ parsed # NotParsed
  /\ ~NodeTruthy(RootOf(parsed, ExpectedRoot))

ErrorResponse == res.status >= 400 /\ DOMAIN res.body = {"message"}

\* C11: an upload that is not well-formed XML ends in one error response: the
\* handler never assembles an analysis object, never reaches the storage call
\* and stores no record, on every route and at every step of the request.
Thm_C11_MalformedXmlIsTerminal ==
  MalformedUpload =>
    /\ parsed = NotParsed
    /\ analysisData = NoData
    /\ analyses = <<>>
    /\ currentId = 1
    /\ hpc # "store"
    /\ (hpc = "done" => ErrorResponse)

Wit_C11_ParserRejected ==
  /\ MalformedUpload
  /\ hpc = "done"
  /\ res = [status |-> 500, body |-> ErrorBody(MSG_XML_ERROR)]

\* C12: a well-formed document without the root the route expects ends the
\* request with status 400 and the route's "Invalid ... file format" message:
\* no analysis object, no stored record, and a response that differs in
\* status and in message from the one a parse failure gets.
Thm_C12_MissingRootIsDistinctFailure ==
  RootMissingAfterParse =>
    /\ hpc = "done"
    /\ analysisData = NoData
    /\ analyses = <<>>
    /\ res = [status |-> 400, body |-> ErrorBody(InvalidFormatMessage)]
    /\ res.status # 500
    /\ res.body.message # MSG_XML_ERROR

Wit_C12_WrongRootAnswered ==
  /\ RootMissingAfterParse
  /\ parsed.root = "html"
  /\ route = "analyze-release"
  /\ res.status = 400

\* ------------------------------------------------ vocabulary of claim C13
\* What the engine returns for the input of call c when nothing else runs:
\* the extraction started from an empty Map, or from an empty list.
ResultAlone(c) ==
  IF c.kind = "dependencies"
    THEN extractDependenciesFrom(<<>>, c.build, c.input)
    ELSE extractVBOElementsFrom(<<>>, c.input.appdef)

SameInput(c, d) == c.kind = d.kind /\ c.build = d.build /\ c.input = d.input

ReleaseAnalysed == route = "analyze-release" /\ analysisData # NoData

\* The bpr:contents of the release document that was parsed.
ParsedContents == ContentsOf(RootOf(parsed, "bpr:release"))

\* The <process> items of the release that embed a process definition.
EmbeddedItems == SelectSeq(ParsedContents.process, LAMBDA item : item.process # <<>>)

\* What /api/analyze computes for the definition embedded in an item.
Standalone(item) == ProcessAnalysisData(file, item.process[1])

\* C14: the release result has one ReleaseProcess per embedded process
\* definition, in order, and each carries the dependencies, totalStages and
\* subsheetCount the standalone analysis computes for that definition.
Claim_C14_ReleaseProcessMatchesStandalone ==
  ReleaseAnalysed =>
    /\ Len(analysisData.processes) = Len(EmbeddedItems)
    /\ \A k \in 1..Len(EmbeddedItems) :
         LET alone == Standalone(EmbeddedItems[k])
             inRelease == analysisData.processes[k]
         IN ~alone.threw =>
              /\ inRelease.dependencies = alone.value.dependencies
              /\ inRelease.totalStages = alone.value.totalStages
              /\ inRelease.subsheetCount = alone.value.subsheetCount

\* The <object> references with an id, read from the <members> of every
\* <object-group> of the release.
ReferencedIds ==
  UNION { { ref.id : ref \in { r \in Range(g.members[1].object) : RefHasId(r) } } :
            g \in { h \in Range(ParsedContents.objectGroup) : h.members # <<>> } }

IsStub(vbo) ==
  /\ vbo.name = STUB_NAME
  /\ vbo.actionCount = 0
  /\ vbo.elementCount = 0
  /\ vbo.actions = <<>>
  /\ vbo.elements = <<>>

Thm_C16_ReleaseTotals ==
  ReleaseAnalysed =>
    /\ analysisData.totalActionCount =
         SumProcessActions(analysisData.processes) + SumField(analysisData.vbos, "actionCount")
    /\ analysisData.totalElementCount = SumField(analysisData.vbos, "elementCount")
    /\ analysisData.processCount = Len(analysisData.processes)
    /\ analysisData.vboCount = Len(analysisData.vbos)

\* One id referenced twice next to a process and a dropped item.
Wit_C16_RepeatedReference ==
  /\ ReleaseAnalysed
  /\ Len(ParsedContents.process) = 2
  /\ analysisData.processCount = 1
  /\ analysisData.vboCount = 2
  /\ analysisData.vbos[1].id = analysisData.vbos[2].id

\* ----------------------------------------- vocabulary of the claims C17..C19
\* The handler of /api/analyze or /api/analyze-vbo found its root element.
ProcessRootFound ==
  /\ route \in {"analyze", "analyze-vbo"}
  /\ parsed # NotParsed
  /\ NodeTruthy(RootOf(parsed, "process"))

ParsedProcess == RootOf(parsed, "process")

\* Every stage, subsheet and element node below the root has attributes.
RECURSIVE AllNodesHaveAttributes(_)
AllNodesHaveAttributes(nodes) ==
  \A i \in 1..Len(nodes) :
    /\ NodeHasAttributes(nodes[i])
    /\ AllNodesHaveAttributes(nodes[i].element)
    /\ AllNodesHaveAttributes(nodes[i].group)

NoBareNodeBelowRoot ==
  /\ \A i \in 1..Len(ParsedProcess.stage) : StageHasAttributes(ParsedProcess.stage[i])
  /\ \A i \in 1..Len(ParsedProcess.subsheet) : SubsheetHasAttributes(ParsedProcess.subsheet[i])
  /\ \A i \in 1..Len(ParsedProcess.appdef) :
       /\ AllNodesHaveAttributes(ParsedProcess.appdef[i].element)
       /\ AllNodesHaveAttributes(ParsedProcess.appdef[i].group)

\* C17: when the root element is found and carries its attributes, the
\* analysis completes with a result (it reaches the storage call and is
\* answered 200) even if a stage, subsheet or element node below the root is
\* malformed.
Claim_C17_MalformedNodeIsSkipped ==
  (ProcessRootFound /\ NodeHasAttributes(ParsedProcess)) =>
    /\ analysisData # NoData
    /\ (hpc = "done" => res.status = 200)

\* An attribute of the root element, undefined when the root has none.
RootAttribute(name) ==
  IF NodeHasAttributes(ParsedProcess) THEN ParsedProcess[name] ELSE Undefined

\* C18: when the root element is found and nothing below it is malformed,
\* the analysis completes and reports the name, version and narrative of the
\* root, each replaced by its default ("Unknown Process" / "Unknown VBO",
\* "1.0", "") when the root does not carry it, also when the root carries no
\* attributes at all.
Claim_C18_RootAttributeDefaults ==
  (ProcessRootFound /\ NoBareNodeBelowRoot) =>
    /\ analysisData # NoData
    /\ route = "analyze" =>
         analysisData.processName = OrElse(RootAttribute("name"), UNKNOWN_PROCESS)
    /\ route = "analyze-vbo" =>
         /\ analysisData.vboName = OrElse(RootAttribute("name"), UNKNOWN_VBO)
         /\ analysisData.version = OrElse(RootAttribute("version"), DEFAULT_VERSION)
         /\ analysisData.narrative = OrElse(RootAttribute("narrative"), <<>>)

HasAllowedExtension(name) ==
  \/ EndsWith(name, EXT_BPPROCESS)
  \/ EndsWith(name, EXT_BPOBJECT)
  \/ EndsWith(name, EXT_BPRELEASE)

\* C19: a file whose name ends with none of .bpprocess, .bpobject and
\* .bprelease never gets past the upload filter, whatever its MIME type: the
\* request is still in the filter or has been answered with the filter's
\* error, and nothing has been analysed or stored for it.
Claim_C19_ExtensionAllowList ==
  (HasFile(file) /\ ~HasAllowedExtension(file.originalname)) =>
    /\ \/ hpc = "upload"
       \/ hpc = "done" /\ res = [status |-> 500, body |-> ErrorBody(MSG_ONLY_ALLOWED)]
    /\ analysisData = NoData
    /\ analyses = <<>>

\* ------------------------------------------------ vocabulary of claim C20
\* A node with both a name and an id.
Qualifies(node) ==
  NodeHasAttributes(node) /\ Truthy(node.name) /\ Truthy(node.id)

\* The nodes of a list of <element> or <group> siblings that have a name and
\* an id, and below each of them the nodes of its <element> and of its
\* <group> children that do, each with the id of its parent.
RECURSIVE QualifiedNodes(_, _, _)
QualifiedNodes(nodes, isGroup, parentId) ==
  UNION { IF Qualifies(nodes[i])
            THEN {[id |-> nodes[i].id, isGroup |-> isGroup, parentId |-> parentId]}
                 \cup QualifiedNodes(nodes[i].element, FALSE, nodes[i].id)
                 \cup QualifiedNodes(nodes[i].group, TRUE, nodes[i].id)
            ELSE {} : i \in 1..Len(nodes) }

QualifiedInAppdef ==
  IF appdef = <<>> THEN {}
  ELSE QualifiedNodes(appdef[1].element, FALSE, Undefined)
       \cup QualifiedNodes(appdef[1].group, TRUE, Undefined)

EmittedNodes ==
  { [id |-> extracted[k].id, isGroup |-> extracted[k].type = TYPE_GROUP,
     parentId |-> extracted[k].parentId] : k \in 1..Len(extracted) }

\* C20: the extractor's list holds one VBOElement for each element or group
\* node that has a name and an id and whose ancestors all have both, and no
\* other: a group is emitted with type "group" wherever it stands, and every
\* emitted node has the id of its parent node as parentId.
Claim_C20_OneElementPerQualifiedNode ==
  xpc = "done" =>
    /\ EmittedNodes = QualifiedInAppdef
    /\ Len(extracted) = Cardinality(QualifiedInAppdef)

\* ------------------------------------------------ skipped element subtrees
\* A list of sibling nodes without the nodes that lack a name or an id, and
\* below each remaining node the same for its <element> and <group> children.
RECURSIVE Pruned(_)
Pruned(nodes) ==
  IF nodes = <<>> THEN <<>>
  ELSE LET node == Head(nodes) IN
       IF Qualifies(node)
         THEN <<[node EXCEPT !.element = Pruned(node.element),
                             !.group = Pruned(node.group)]>> \o Pruned(Tail(nodes))
         ELSE Pruned(Tail(nodes))

PrunedAppdef ==
  IF appdef = <<>> THEN <<>>
  ELSE <<[element |-> Pruned(appdef[1].element), group |-> Pruned(appdef[1].group)]>>

\* Some node of the list, or below it, lacks a name or an id.
RECURSIVE HasSkippedNode(_)
HasSkippedNode(nodes) ==
  \E i \in 1..Len(nodes) :
    \/ ~Qualifies(nodes[i])
    \/ HasSkippedNode(nodes[i].element)
    \/ HasSkippedNode(nodes[i].group)

\* C21: a node without a name or without an id is left out together with
\* everything below it, and its siblings are processed as usual: the list
\* extracted from a definition is the list extracted from the same definition
\* with every such node and its subtree removed.
Claim_C21_SkippedSubtreeIsDropped ==
  xpc # "extract" =>
    /\ xpc = "done"
    /\ extracted = extractVBOElements(PrunedAppdef).value

\* ------------------------------------------------- parent links and paths
\* The list position k holds an element emitted at the root of the definition.
EmittedAtRoot(k) ==
  /\ extracted[k].parentId = Undefined
  /\ \E i \in 1..Len(appdef[1].element) :
       /\ Qualifies(appdef[1].element[i])
       /\ appdef[1].element[i].id = extracted[k].id

\* The list position k holds a node whose enclosing node was emitted at an
\* earlier position j.
EmittedBelow(k, j) ==
  /\ j < k
  /\ extracted[j].id = extracted[k].parentId
  /\ [id |-> extracted[k].id, isGroup |-> extracted[k].type = TYPE_GROUP,
      parentId |-> extracted[j].id] \in QualifiedInAppdef

\* C22: in the extracted list an element emitted at the root has no parentId
\* and its name as path; every other entry has the id of its enclosing node
\* as parentId, that node stands earlier in the list, and the entry's path is
\* the parent's path, " - " and its own name.
Thm_C22_ParentLinksAndPaths ==
  xpc = "done" =>
    \A k \in 1..Len(extracted) :
      \/ EmittedAtRoot(k) /\ extracted[k].path = extracted[k].name
      \/ \E j \in 1..Len(extracted) :
           /\ EmittedBelow(k, j)
           /\ extracted[k].path = extracted[j].path \o PATH_SEP \o extracted[k].name

\* A root element, a group below it and an element below the group were
\* emitted, and the root's sibling after them.
Wit_C22_ThreeLevelsAndSibling ==
  /\ xpc = "done"
  /\ Len(extracted) = 4
  /\ EmittedAtRoot(1) /\ EmittedBelow(2, 1) /\ EmittedBelow(3, 2) /\ EmittedAtRoot(4)
  /\ extracted[2].type = TYPE_GROUP

\* ---------------------------------------------------- VBO action extractor
\* The client-side extractActions over the stage elements of the document:
\* querySelectorAll('stage[type="SubSheetInfo"]') selects by the type
\* attribute, and a selected stage is pushed only if (name && id).
RECURSIVE extractActions(_, _, _)
extractActions(stgs, i, acc) ==
  IF i > Len(stgs) THEN acc
  ELSE LET stage == stgs[i]
           selected == StageHasAttributes(stage) /\ stage.type = SUBSHEET_INFO
       IN extractActions(stgs, i + 1,
            IF selected /\ Truthy(stage.name) /\ Truthy(stage.stageid)
              THEN Append(acc, [id |-> stage.stageid, name |-> stage.name,
                                type |-> SUBSHEET_INFO, description |-> Undefined,
                                inputs |-> Undefined, outputs |-> Undefined])
              ELSE acc)

\* The stages a business object is tried with: action definitions and other
\* stages, with and without a name and a stage id, and a stage without
\* attributes.
ActionStagePool ==
  { RouteStage(name, Undefined, <<>>, type, stageid) :
      name \in {STAGE_ACTION, Undefined},
      type \in {SUBSHEET_INFO, STAGE_TYPE_ACTION},
      stageid \in {STAGE_ID_1, STAGE_ID_2, Undefined} }
  \cup {BareStage}

InitActions ==
  /\ vboStages \in SeqsUpTo(ActionStagePool, MaxStages)
  /\ extractor \in {"server", "client"}
  /\ apc = "extract"
  /\ actionDefs = <<>>
  /\ DepIdle /\ TreeIdle /\ RouteIdle /\ ElemIdle /\ CallIdle /\ NameIdle /\ StoreIdle /\ HomeIdle /\ UploadIdle

\* const actions = extractVBOActions(stages) in /api/analyze-vbo.
ExtractServerActions ==
  /\ apc = "extract" /\ extractor = "server"
  /\ LET outcome == extractVBOActions(vboStages, 1, <<>>) IN
       IF outcome.threw
         THEN apc' = "thrown" /\ UNCHANGED actionDefs
         ELSE apc' = "done" /\ actionDefs' = outcome.value
  /\ UNCHANGED <<vboStages, extractor>>
  /\ UNCHANGED <<depVars, treeVars, routeVars, elemVars, callVars, nameVars, storeVars, homeVars, uploadVars>>

\* const actions = extractActions(doc) in parseVBOFile.
ExtractClientActions ==
  /\ apc = "extract" /\ extractor = "client"
  /\ apc' = "done"
  /\ actionDefs' = extractActions(vboStages, 1, <<>>)
  /\ UNCHANGED <<vboStages, extractor>>
  /\ UNCHANGED <<depVars, treeVars, routeVars, elemVars, callVars, nameVars, storeVars, homeVars, uploadVars>>

NextActions ==
  \/ ExtractServerActions
  \/ ExtractClientActions

SpecActions == InitActions /\ [][NextActions]_vars

\* The stages of type "SubSheetInfo", in document order.
IsActionDefinition(stage) ==
  StageHasAttributes(stage) /\ stage.type = SUBSHEET_INFO

SubSheetInfoStages == SelectSeq(vboStages, IsActionDefinition)

\* C23: the action extractor returns one entry for each stage of type
\* "SubSheetInfo" and for no other stage, in document order, each with the
\* stage's own stage id and name; two such stages of one name give two
\* entries, so the number of actions is the number of SubSheetInfo stages.
Claim_C23_OneActionPerSubSheetInfoStage ==
  apc # "extract" =>
    /\ apc = "done"
    /\ Len(actionDefs) = Len(SubSheetInfoStages)
    /\ \A k \in 1..Len(actionDefs) :
         /\ actionDefs[k].id = SubSheetInfoStages[k].stageid
         /\ actionDefs[k].name = SubSheetInfoStages[k].name
         /\ actionDefs[k].type = SUBSHEET_INFO

\* ------------------------------------------- client-side element extractor
\* The child nodes of a DOM node that extractElementsRecursive looks at, with
\* their tag names; the <id> and <type> children precede them.
ChildNodes(node) ==
  [i \in 1..Len(node.element) |-> [tagName |-> TYPE_ELEMENT, node |-> node.element[i]]]
  \o [i \in 1..Len(node.group) |-> [tagName |-> TYPE_GROUP, node |-> node.group[i]]]

\* node.querySelector(tag)?.textContent for tag "id" or "type": the text of
\* the first such element among the descendants, in document order.
RECURSIVE QueryText(_, _)
RECURSIVE QueryTextIn(_, _, _)
QueryText(node, tag) ==
  IF node[tag] # Undefined THEN node[tag] ELSE QueryTextIn(ChildNodes(node), 1, tag)

QueryTextIn(children, i, tag) ==
  IF i > Len(children) THEN Undefined
  ELSE LET found == QueryText(children[i].node, tag) IN
       IF found # Undefined THEN found ELSE QueryTextIn(children, i + 1, tag)

\* element.getAttribute(key): null when the attribute is missing.
GetAttribute(node, key) == IF key \in DOMAIN node THEN node[key] ELSE Undefined

\* element.querySelectorAll(':scope > attributes > attribute')
RECURSIVE ScopedAttributes(_, _)
ScopedAttributes(attributesArray, i) ==
  IF i > Len(attributesArray) THEN <<>>
  ELSE (IF "attribute" \in DOMAIN attributesArray[i]
          THEN attributesArray[i].attribute ELSE <<>>)
       \o ScopedAttributes(attributesArray, i + 1)

\* attributeElements.forEach from position i on: inuse is
\* attr.hasAttribute('inuse').
RECURSIVE ClientAttributes(_, _, _)
ClientAttributes(attrs, i, map) ==
  IF i > Len(attrs) THEN map
  ELSE LET attr == attrs[i]
           attrName == GetAttribute(attr, "name")
           hasValue == "ProcessValue" \in DOMAIN attr /\ Len(attr.ProcessValue) > 0
       IN IF Truthy(attrName) /\ hasValue
            THEN ClientAttributes(attrs, i + 1,
                   AttributePut(map,
                     [name |-> attrName,
                      datatype |-> GetAttribute(attr.ProcessValue[1], "datatype"),
                      value |-> GetAttribute(attr.ProcessValue[1], "value"),
                      inuse |-> GetAttribute(attr, "inuse") # Undefined]))
            ELSE ClientAttributes(attrs, i + 1, map)

\* The for loop of the client-side extractElementsRecursive over
\* parent.children, from position i on.
RECURSIVE clientExtractElementsRecursive(_, _, _, _, _)
clientExtractElementsRecursive(children, i, elems, parentPath, parentId) ==
  IF i > Len(children) THEN elems
  ELSE LET element == children[i].node
           name == GetAttribute(element, "name")
           id == QueryText(element, "id")
           type == OrElse(QueryText(element, "type"), children[i].tagName)
       IN IF Truthy(name) /\ Truthy(id)
            THEN LET currentPath == JoinPath(parentPath, name)
                     attributes ==
                       ClientAttributes(
                         ScopedAttributes(IF "attributes" \in DOMAIN element
                                            THEN element.attributes ELSE <<>>, 1),
                         1, <<>>)
                     pushed == Append(elems,
                                 VBOElement(id, name, type, parentId, currentPath,
                                            IF Len(attributes) > 0
                                              THEN AttributeMap(attributes)
                                              ELSE NoAttributes))
                     below == clientExtractElementsRecursive(ChildNodes(element), 1, pushed,
                                                             currentPath, id)
                 IN clientExtractElementsRecursive(children, i + 1, below, parentPath, parentId)
            ELSE clientExtractElementsRecursive(children, i + 1, elems, parentPath, parentId)

\* extractElements(doc): doc.querySelector('appdef') and the walk below it.
clientExtractElements(appdefArray) ==
  IF Len(appdefArray) = 0 THEN <<>>
  ELSE clientExtractElementsRecursive(ChildNodes(appdefArray[1]), 1, <<>>, <<>>, Undefined)

\* The <attribute> children an element is tried with.
AttributePool ==
  { AttributeNode(name, inuse, <<ProcessValueNode(DATATYPE_TEXT, VALUE_OK)>>) :
      name \in {ATTR_TEXT, ATTR_ENABLED},
      inuse \in {LIT_TRUE, INUSE_LOWER, INUSE_FALSE, Undefined} }
  \cup { AttributeNode(ATTR_TEXT, LIT_TRUE, values) :
           values \in {<<>>, <<EmptyElement>>, <<TextElement>>} }
  \cup { AttributeNode(Undefined, LIT_TRUE, <<ProcessValueNode(DATATYPE_TEXT, VALUE_OK)>>),
         BareAttributeNode(<<ProcessValueNode(DATATYPE_TEXT, VALUE_OK)>>),
         EmptyElement }

InitAttributes ==
  /\ \E attributesArray \in
          {<<EmptyElement>>}
          \cup { <<AttributesNode(attrs)>> : attrs \in SeqsUpTo(AttributePool, MaxAttrs) } :
       appdef = <<[element |-> <<AttributedElementNode(ELEM_ROOT, ELEM_ID_1, attributesArray)>>,
                   group |-> <<>>]>>
  /\ extractor \in {"server", "client"}
  /\ xpc = "extract"
  /\ extracted = <<>>
  /\ vboStages = <<>> /\ apc = "idle" /\ actionDefs = <<>>
  /\ DepIdle /\ TreeIdle /\ RouteIdle /\ CallIdle /\ NameIdle /\ StoreIdle /\ HomeIdle /\ UploadIdle

\* const elements = extractElements(doc) in parseVBOFile.
ExtractClientElements ==
  /\ xpc = "extract" /\ extractor = "client"
  /\ xpc' = "done"
  /\ extracted' = clientExtractElements(appdef)
  /\ UNCHANGED <<appdef, actVars>>
  /\ UNCHANGED <<depVars, treeVars, routeVars, callVars, nameVars, storeVars, homeVars, uploadVars>>

NextAttributes ==
  \/ ExtractElements
  \/ ExtractClientElements

SpecAttributes == InitAttributes /\ [][NextAttributes]_vars

\* The <attribute> children of the element, and those with a name and a
\* nested value descriptor.
AttributeChildren ==
  IF NodeTruthy(appdef[1].element[1].attributes[1])
    THEN appdef[1].element[1].attributes[1].attribute ELSE <<>>

HasDescriptor(attr) ==
  /\ "ProcessValue" \in DOMAIN attr
  /\ Len(attr.ProcessValue) > 0
  /\ "datatype" \in DOMAIN attr.ProcessValue[1]

QualifyingAttribute(attr) ==
  NodeHasAttributes(attr) /\ Truthy(attr.name) /\ HasDescriptor(attr)

QualifyingAttributes == SelectSeq(AttributeChildren, QualifyingAttribute)

\* C24: the attributes of the emitted element have an entry exactly for the
\* attribute children with a name and a value descriptor, the entry's inuse
\* is true exactly when the (last) attribute of that name has inuse "True",
\* and without a qualifying attribute the element has no attributes.
Claim_C24_AttributesOfQualifyingChildren ==
  xpc # "extract" =>
    /\ xpc = "done"
    /\ Len(extracted) = 1
    /\ IF Len(QualifyingAttributes) = 0
         THEN extracted[1].attributes = NoAttributes
         ELSE /\ "entries" \in DOMAIN extracted[1].attributes
              /\ LET entries == extracted[1].attributes.entries
                     q == QualifyingAttributes
                 IN /\ { entries[k].name : k \in 1..Len(entries) }
                         = { q[i].name : i \in 1..Len(q) }
                    /\ \A k \in 1..Len(entries) : \E i \in 1..Len(q) :
                         /\ q[i].name = entries[k].name
                         /\ \A j \in (i + 1)..Len(q) : q[j].name # q[i].name
                         /\ entries[k].inuse = (q[i].inuse = LIT_TRUE)
                         /\ entries[k].datatype = q[i].ProcessValue[1].datatype
                         /\ entries[k].value = q[i].ProcessValue[1].value

\* ------------------------------------------------------- nameless stages
\* The stage the running forEach is about to visit has no name or the empty
\* name.
VisitingNamelessStage ==
  /\ pc = "scan"
  /\ idx <= Len(PassStages(pass))
  /\ ~Truthy(PassStages(pass)[idx].name)

\* C25: the visit of a stage whose name is empty or missing changes nothing
\* in the dependencies: no VBODependency and no VBOAction is created and no
\* usageCount or locations list changes, whatever resource the stage carries.
Claim_C25_NamelessStageContributesNothing ==
  [][VisitingNamelessStage => vbos' = vbos]_vars

\* ------------------------------------------------ action name of a stage
\* String.prototype.trim
RECURSIVE TrimEnd(_)
TrimEnd(s) ==
  IF Len(s) > 0 /\ IsSpace(s[Len(s)]) THEN TrimEnd(SubSeq(s, 1, Len(s) - 1)) ELSE s

Trim(s) == TrimEnd(SubSeq(s, SkipSpaces(s, 1), Len(s)))

\* The client-side pattern list: the patterns of the server-side list
\* without Environment, in the same order.
clientVboPatterns ==
  << [pattern |-> PAT_EXCEL, vbo |-> VBO_EXCEL],
     [pattern |-> PAT_EMAIL, vbo |-> VBO_EMAIL],
     [pattern |-> PAT_COLLECTION, vbo |-> VBO_COLLECTION],
     [pattern |-> PAT_FILE, vbo |-> VBO_FILE],
     [pattern |-> PAT_STRING, vbo |-> VBO_STRINGS],
     [pattern |-> PAT_DATE, vbo |-> VBO_DATE],
     [pattern |-> PAT_MATH, vbo |-> VBO_MATH],
     [pattern |-> PAT_SAP, vbo |-> VBO_SAP],
     [pattern |-> PAT_WEB, vbo |-> VBO_WEB],
     [pattern |-> PAT_DATABASE, vbo |-> VBO_DATABASE] >>

\* identifyVBOPatterns: the first matching pattern decides, and the action
\* name is stageName.replace(/^\[.*?\]\s*/, "").trim() || stageName.
identifyVBOPatterns(name) ==
  IF \E k \in 1..Len(clientVboPatterns) : RegexTestI(clientVboPatterns[k].pattern, name)
    THEN LET k == CHOOSE k \in 1..Len(clientVboPatterns) :
                    /\ RegexTestI(clientVboPatterns[k].pattern, name)
                    /\ \A j \in 1..(k - 1) : ~RegexTestI(clientVboPatterns[j].pattern, name)
         IN [isVBO |-> TRUE, vboName |-> clientVboPatterns[k].vbo,
             actionName |-> OrElse(Trim(StripLeadingTag(name)), name)]
    ELSE [isVBO |-> FALSE, vboName |-> <<>>, actionName |-> name]

\* Stage names made of brackets, blanks and a word that matches a pattern.
MaxTokens == 5
NameTokens == {<<"[">>, <<"]">>, <<" ">>, <<"S","A","P">>}

RECURSIVE Flatten(_)
Flatten(tokens) == IF tokens = <<>> THEN <<>> ELSE Head(tokens) \o Flatten(Tail(tokens))

StageNames == { Flatten(tokens) : tokens \in SeqsUpTo(NameTokens, MaxTokens) }

InitNames ==
  /\ givenName \in StageNames
  /\ extractor \in {"server", "client"}
  /\ derivedName = <<>>
  /\ npc = "derive"
  /\ vboStages = <<>> /\ apc = "idle" /\ actionDefs = <<>>
  /\ DepIdle /\ TreeIdle /\ RouteIdle /\ ElemIdle /\ CallIdle /\ StoreIdle /\ HomeIdle /\ UploadIdle

\* The name-pattern build of extractFromStages reached
\* const actionName = extractActionName(stageName) for a matching stage.
DeriveServerName ==
  /\ npc = "derive" /\ extractor = "server"
  /\ MatchFrom(givenName, 1) # 0
  /\ derivedName' = extractActionName(givenName)
  /\ npc' = "done"
  /\ UNCHANGED <<givenName, actVars>>
  /\ UNCHANGED <<depVars, treeVars, routeVars, elemVars, callVars, storeVars, homeVars, uploadVars>>

\* identifyVBOPatterns(stageName) recognised a VBO.
DeriveClientName ==
  /\ npc = "derive" /\ extractor = "client"
  /\ identifyVBOPatterns(givenName).isVBO
  /\ derivedName' = identifyVBOPatterns(givenName).actionName
  /\ npc' = "done"
  /\ UNCHANGED <<givenName, actVars>>
  /\ UNCHANGED <<depVars, treeVars, routeVars, elemVars, callVars, storeVars, homeVars, uploadVars>>

NextNames ==
  \/ DeriveServerName
  \/ DeriveClientName

SpecNames == InitNames /\ [][NextNames]_vars

\* The name begins with a bracketed tag: "[", anything but "]", "]".
HasLeadingTag(s) ==
  /\ Len(s) >= 2
  /\ s[1] = "["
  /\ \E j \in 2..Len(s) : s[j] = "]"

\* The name without its leading tag and the white space after the tag.
WithoutLeadingTag(s) ==
  LET j == CHOOSE j \in 2..Len(s) : s[j] = "]" /\ \A m \in 2..(j - 1) : s[m] # "]"
  IN SubSeq(s, SkipSpaces(s, j + 1), Len(s))

\* C26: the action name of a stage is its name without one leading bracketed
\* tag and the white space after the tag; it is the full name when nothing
\* remains, and the unchanged name when there is no leading tag.
Claim_C26_ActionNameStripsLeadingTag ==
  npc = "done" =>
    IF HasLeadingTag(givenName)
      THEN IF WithoutLeadingTag(givenName) # <<>>
             THEN derivedName = WithoutLeadingTag(givenName)
             ELSE derivedName = givenName
      ELSE derivedName = givenName

\* ------------------------------------------------------ first-seen order
\* A list without the repetitions of its entries: each entry stays where it
\* stood first.
FirstSeen(seq) ==
  LET firsts == {i \in 1..Len(seq) : \A j \in 1..(i - 1) : seq[j] # seq[i]}
  IN [k \in 1..Cardinality(firsts) |->
        seq[CHOOSE i \in firsts : Cardinality({j \in firsts : j <= i}) = k]]

\* What distinguishes the actions of one VBO: the action name, and in the
\* name-pattern build the location as well.
ActionKey(name, location) ==
  IF build = "pattern" THEN <<name, location>> ELSE <<name, <<>>>>

\* The VBO and the action key of the visits made so far that recognised a
\* VBO, in the order of the scan.
RecognisedVisits ==
  LET visits == VisitsDone
      keyed == SubSeq([i \in 1..Len(visits) |->
                         [vbo |-> RecognisedVBO(visits[i].stage),
                          key |-> ActionKey(RecognisedAction(visits[i].stage),
                                            visits[i].location)]],
                      1, Len(visits))
  IN SelectSeq(keyed, LAMBDA v : v.vbo # Undefined)

\* C27: at every step of the scan the dependencies stand in the order in
\* which their VBO names were first recognised and each VBO's actions in the
\* order in which they were first recognised, so that no later invocation
\* moves an entry, and the returned list has that order.
Thm_C27_FirstSeenOrder ==
  LET recognised == RecognisedVisits IN
  /\ [i \in 1..Len(vbos) |-> vbos[i].name]
       = FirstSeen([i \in 1..Len(recognised) |-> recognised[i].vbo])
  /\ \A i \in 1..Len(vbos) :
       LET ofVbo == SelectSeq(recognised, LAMBDA v : v.vbo = vbos[i].name) IN
       [k \in 1..Len(vbos[i].actions) |->
          ActionKey(vbos[i].actions[k].name, vbos[i].actions[k].locations[1])]
         = FirstSeen([k \in 1..Len(ofVbo) |-> ofVbo[k].key])
  /\ pc = "done" => result = vbos

\* Get Current Date was recognised before Format Date and invoked again
\* after it: the returned order is not the alphabetical one.
Wit_C27_RepeatedAfterLaterAction ==
  /\ pc = "done"
  /\ build = "resource"
  /\ Len(result) = 1
  /\ [k \in 1..Len(result[1].actions) |-> result[1].actions[k].name]
       = <<ACT_GET_CURRENT_DATE, ACT_FORMAT_DATE>>
  /\ result[1].actions[1].usageCount >= 2
  /\ Len(stages) = 2 /\ RecognisedAction(stages[1]) = ACT_GET_CURRENT_DATE

\* ------------------------------------------------------ in-memory storage
MaxOps == 3

\* this.analyses.get(id): undefined when the Map has no such key.
NoAnalysis == [undefined |-> TRUE]

MemGet(map, id) ==
  IF \E i \in 1..Len(map) : map[i].id = id
    THEN map[CHOOSE i \in 1..Len(map) : map[i].id = id]
    ELSE NoAnalysis

\* this.analyses.set(id, analysis): a new key is appended, an existing key
\* keeps its place and gets the new value.
MemSet(map, analysis) ==
  IF \E i \in 1..Len(map) : map[i].id = analysis.id
    THEN [i \in 1..Len(map) |-> IF map[i].id = analysis.id THEN analysis ELSE map[i]]
    ELSE Append(map, analysis)

\* An id that is not advanced by the call.
createProcessAnalysis_ReusesId(map, nextId, insertAnalysis) ==
  LET analysis == [id |-> nextId] @@ insertAnalysis
  IN [analyses |-> MemSet(map, analysis), currentId |-> nextId, analysis |-> analysis]

\* const id = this.currentId++; const analysis = { ...insertAnalysis, id };
\* this.analyses.set(id, analysis); return analysis;
createProcessAnalysis(map, nextId, insertAnalysis) ==
  LET analysis == [id |-> nextId] @@ insertAnalysis
  IN [analyses |-> MemSet(map, analysis), currentId |-> nextId + 1, analysis |-> analysis]

\* The analyses the callers insert.
InsertAnalyses == { [processName |-> n] : n \in {PROC_ORDERS, PROC_BILLING} }

InitStorage ==
  /\ analyses = <<>>
  /\ currentId = 1
  /\ promises = <<>>
  /\ route = "none" /\ file = NoFile /\ hpc = "idle" /\ parsed = NotParsed
  /\ analysisData = NoData /\ res = NoResponse
  /\ DepIdle /\ TreeIdle /\ ElemIdle /\ CallIdle /\ ActIdle /\ NameIdle /\ HomeIdle /\ UploadIdle

\* A caller calls storage.createProcessAnalysis: the body runs to its end
\* and the promise is returned.
CreateProcessAnalysis ==
  /\ Len(promises) < MaxOps
  /\ \E insertAnalysis \in InsertAnalyses :
       LET done == createProcessAnalysis(analyses, currentId, insertAnalysis) IN
       /\ analyses' = done.analyses
       /\ currentId' = done.currentId
       /\ promises' = Append(promises, [op |-> "create", insert |-> insertAnalysis,
                                        analysis |-> done.analysis, awaited |-> FALSE])
  /\ UNCHANGED <<route, file, hpc, parsed, analysisData, res>>
  /\ UNCHANGED <<depVars, treeVars, elemVars, callVars, actVars, nameVars, homeVars, uploadVars>>

\* A caller calls storage.getProcessAnalysis(id).
GetProcessAnalysis ==
  /\ Len(promises) < MaxOps
  /\ \E id \in 1..MaxOps :
       promises' = Append(promises, [op |-> "get", id |-> id,
                                     analysis |-> MemGet(analyses, id), awaited |-> FALSE])
  /\ UNCHANGED <<analyses, currentId>>
  /\ UNCHANGED <<route, file, hpc, parsed, analysisData, res>>
  /\ UNCHANGED <<depVars, treeVars, elemVars, callVars, actVars, nameVars, homeVars, uploadVars>>

\* A caller calls storage.getAllProcessAnalyses().
GetAllProcessAnalyses ==
  /\ Len(promises) < MaxOps
  /\ promises' = Append(promises, [op |-> "getAll", list |-> analyses, awaited |-> FALSE])
  /\ UNCHANGED <<analyses, currentId>>
  /\ UNCHANGED <<route, file, hpc, parsed, analysisData, res>>
  /\ UNCHANGED <<depVars, treeVars, elemVars, callVars, actVars, nameVars, homeVars, uploadVars>>

\* The caller of one of the calls resumes after its await, in any order.
AwaitPromise ==
  /\ \E i \in 1..Len(promises) :
       /\ ~promises[i].awaited
       /\ promises' = [promises EXCEPT ![i].awaited = TRUE]
  /\ UNCHANGED <<analyses, currentId>>
  /\ UNCHANGED <<route, file, hpc, parsed, analysisData, res>>
  /\ UNCHANGED <<depVars, treeVars, elemVars, callVars, actVars, nameVars, homeVars, uploadVars>>

NextStorage ==
  \/ CreateProcessAnalysis
  \/ GetProcessAnalysis
  \/ GetAllProcessAnalyses
  \/ AwaitPromise

SpecStorage == InitStorage /\ [][NextStorage]_vars

\* The records the create calls among the first n calls returned, in call
\* order.
CreatedBefore(n) ==
  LET made == SelectSeq(SubSeq(promises, 1, n), LAMBDA p : p.op = "create")
  IN [k \in 1..Len(made) |-> made[k].analysis]

\* C28: the create calls got the ids 1, 2, 3, ... in call order, each with
\* the inserted fields; every get returned the record created with its id
\* before the call, undefined if there was none; every getAll returned the
\* records created before it, once each and in creation order; and the
\* storage still holds every created record unchanged.
Thm_C28_MemStorageIds ==
  /\ \A k \in 1..Len(CreatedBefore(Len(promises))) :
       CreatedBefore(Len(promises))[k].id = k
  /\ \A i \in 1..Len(promises) :
       /\ promises[i].op = "create" =>
            /\ promises[i].analysis.processName = promises[i].insert.processName
            /\ promises[i].analysis.id = Len(CreatedBefore(i))
       /\ promises[i].op = "get" =>
            IF promises[i].id <= Len(CreatedBefore(i))
              THEN promises[i].analysis = CreatedBefore(i)[promises[i].id]
              ELSE promises[i].analysis = NoAnalysis
       /\ promises[i].op = "getAll" => promises[i].list = CreatedBefore(i)
  /\ analyses = CreatedBefore(Len(promises))
  /\ currentId = Len(analyses) + 1

\* Two creates of the same fields, the second awaited before the first, and
\* then a getAll.
Wit_C28_InterleavedCreates ==
  /\ Len(promises) = 3
  /\ promises[1].op = "create" /\ promises[2].op = "create" /\ promises[3].op = "getAll"
  /\ promises[1].insert = promises[2].insert
  /\ promises[2].awaited /\ ~promises[1].awaited
  /\ Len(promises[3].list) = 2

\* ------------------------------------------------------------- Home page
MaxCallbacks == 3

\* useState<ProcessAnalysis | null>(null)
Null == [null |-> TRUE]

\* A handler that does not clear the process analysis.
handleVboAnalysisComplete_KeepsProcess(page, analysisResult) ==
  [page EXCEPT !.vboAnalysis = analysisResult, !.isUploading = FALSE]

\* setAnalysis(result); setVboAnalysis(null); setIsUploading(false);
handleProcessAnalysisComplete(page, analysisResult) ==
  [analysis |-> analysisResult, vboAnalysis |-> Null, isUploading |-> FALSE]

\* setVboAnalysis(result); setAnalysis(null); setIsUploading(false);
handleVboAnalysisComplete(page, analysisResult) ==
  [analysis |-> Null, vboAnalysis |-> analysisResult, isUploading |-> FALSE]

\* setIsUploading(true); setAnalysis(null); setVboAnalysis(null);
handleUploadStart(page) ==
  [analysis |-> Null, vboAnalysis |-> Null, isUploading |-> TRUE]

\* setIsUploading(false);
handleUploadError(page) == [page EXCEPT !.isUploading = FALSE]

\* The analyses the server answers with.
ProcessResults == { [id |-> i, processName |-> PROC_ORDERS] : i \in 1..2 }
VBOResults == { [id |-> i, vboName |-> VBO_DATE] : i \in 1..2 }

InitHome ==
  /\ home = [analysis |-> Null, vboAnalysis |-> Null, isUploading |-> FALSE]
  /\ callbacks = <<>>
  /\ DepIdle /\ TreeIdle /\ RouteIdle /\ ElemIdle /\ CallIdle
  /\ ActIdle /\ NameIdle /\ StoreIdle /\ UploadIdle

nonHomeVars == <<depVars, treeVars, routeVars, elemVars, callVars, actVars, nameVars, storeVars, uploadVars>>

OnProcessAnalysisComplete ==
  /\ Len(callbacks) < MaxCallbacks
  /\ \E r \in ProcessResults : home' = handleProcessAnalysisComplete(home, r)
  /\ callbacks' = Append(callbacks, "onProcessAnalysisComplete")
  /\ UNCHANGED nonHomeVars

OnVBOAnalysisComplete ==
  /\ Len(callbacks) < MaxCallbacks
  /\ \E r \in VBOResults : home' = handleVboAnalysisComplete(home, r)
  /\ callbacks' = Append(callbacks, "onVBOAnalysisComplete")
  /\ UNCHANGED nonHomeVars

OnUploadStart ==
  /\ Len(callbacks) < MaxCallbacks
  /\ home' = handleUploadStart(home)
  /\ callbacks' = Append(callbacks, "onUploadStart")
  /\ UNCHANGED nonHomeVars

OnUploadError ==
  /\ Len(callbacks) < MaxCallbacks
  /\ home' = handleUploadError(home)
  /\ callbacks' = Append(callbacks, "onUploadError")
  /\ UNCHANGED nonHomeVars

NextHome ==
  \/ OnProcessAnalysisComplete
  \/ OnVBOAnalysisComplete
  \/ OnUploadStart
  \/ OnUploadError

SpecHome == InitHome /\ [][NextHome]_vars

\* The callback invoked by the step.
Invoked(name) == callbacks' = Append(callbacks, name)

\* C29: the process analysis and the VBO analysis are never both displayed;
\* upload-start leaves both cleared; upload-error changes isUploading only.
Thm_C29_AtMostOneAnalysisShown ==
  /\ [](home.analysis = Null \/ home.vboAnalysis = Null)
  /\ [][Invoked("onUploadStart") =>
          home'.analysis = Null /\ home'.vboAnalysis = Null]_vars
  /\ [][Invoked("onUploadError") =>
          /\ home'.analysis = home.analysis
          /\ home'.vboAnalysis = home.vboAnalysis]_vars

\* A VBO analysis completed while a process analysis was displayed.
Wit_C29_VBOAfterProcess ==
  /\ Len(callbacks) >= 2
  /\ callbacks[Len(callbacks) - 1] = "onProcessAnalysisComplete"
  /\ callbacks[Len(callbacks)] = "onVBOAnalysisComplete"
  /\ home.vboAnalysis # Null

\* ------------------------------------------------------ upload components
MaxUploads == 2

\* The extension a component accepts and the files that are dropped on it.
AcceptedExtension == IF component = "FileUpload" THEN EXT_BPPROCESS ELSE EXT_BPOBJECT
DroppedFiles == {FILE_PROCESS, FILE_OBJECT, FILE_OTHER}

\* setProgress(prev => ...) of the interval callback: the value it returns
\* and whether it calls clearInterval(progressInterval).
TickProgress(prev) == IF prev >= 90 THEN 90 ELSE prev + 10
TickClears(prev) == prev >= 90

InitUpload ==
  /\ component \in {"FileUpload", "VBOUpload"}
  /\ uploadedFile = Undefined
  /\ progress = 0
  /\ isUploading = FALSE
  /\ upc = "idle"
  /\ timer = 0
  /\ timers = {}
  /\ toast = "none"
  /\ DepIdle /\ TreeIdle /\ RouteIdle /\ ElemIdle /\ CallIdle
  /\ ActIdle /\ NameIdle /\ StoreIdle /\ HomeIdle

nonUploadVars ==
  <<depVars, treeVars, routeVars, elemVars, callVars, actVars, nameVars, storeVars,
    homeVars>>

\* onDrop with a file of another extension: the toast and the return.
DropRejected ==
  /\ ~isUploading
  /\ \E name \in DroppedFiles :
       /\ ~EndsWith(name, AcceptedExtension)
       /\ toast' = "invalid"
  /\ UNCHANGED <<component, uploadedFile, progress, isUploading, upc, timer, timers>>
  /\ UNCHANGED nonUploadVars

\* onDrop up to its first await: setUploadedFile, onUploadStart, setInterval
\* and the request.  The dropzone is rendered only while isUploading is false.
DropAccepted ==
  /\ ~isUploading
  /\ timer < MaxUploads
  /\ \E name \in DroppedFiles :
       /\ EndsWith(name, AcceptedExtension)
       /\ uploadedFile' = name
  /\ isUploading' = TRUE
  /\ timer' = timer + 1
  /\ timers' = timers \cup {timer + 1}
  /\ upc' = "waiting"
  /\ UNCHANGED <<component, progress, toast>>
  /\ UNCHANGED nonUploadVars

\* The callback of one active interval fires, 300 ms after the last time.
ProgressTick ==
  /\ \E t \in timers :
       /\ progress' = TickProgress(progress)
       /\ timers' = IF TickClears(progress) THEN timers \ {t} ELSE timers
  /\ UNCHANGED <<component, uploadedFile, isUploading, upc, timer, toast>>
  /\ UNCHANGED nonUploadVars

\* The request resolved: clearInterval(progressInterval), setProgress(100)
\* and the setTimeout of the completion.
UploadSucceeded ==
  /\ upc = "waiting"
  /\ timers' = timers \ {timer}
  /\ progress' = 100
  /\ upc' = "succeeded"
  /\ UNCHANGED <<component, uploadedFile, isUploading, timer, toast>>
  /\ UNCHANGED nonUploadVars

\* 500 ms later: onUploadComplete(analysis) and the toast.
UploadCompleted ==
  /\ upc = "succeeded"
  /\ isUploading' = FALSE
  /\ toast' = "success"
  /\ upc' = "done"
  /\ UNCHANGED <<component, uploadedFile, progress, timer, timers>>
  /\ UNCHANGED nonUploadVars

\* The request or response.json() rejected: the catch block, in which
\* progressInterval, a const of the try block, is out of scope.
UploadFailed ==
  /\ upc = "waiting"
  /\ isUploading' = FALSE
  /\ toast' = "error"
  /\ progress' = 0
  /\ upc' = "failed"
  /\ UNCHANGED <<component, uploadedFile, timer, timers>>
  /\ UNCHANGED nonUploadVars

\* removeFile: setUploadedFile(null); setProgress(0)
RemoveFile ==
  /\ ~isUploading
  /\ uploadedFile # Undefined
  /\ uploadedFile' = Undefined
  /\ progress' = 0
  /\ UNCHANGED <<component, isUploading, upc, timer, timers, toast>>
  /\ UNCHANGED nonUploadVars

NextUpload ==
  \/ DropRejected
  \/ DropAccepted
  \/ ProgressTick
  \/ UploadSucceeded
  \/ UploadCompleted
  \/ UploadFailed
  \/ RemoveFile

SpecUpload == InitUpload /\ [][NextUpload]_vars

\* C30: after a failed upload the progress is 0 until the next upload
\* starts, and the interval of an upload is no longer active once the upload
\* has succeeded or failed.
Claim_C30_ProgressStaysResetAfterFailure ==
  /\ upc = "failed" => progress = 0
  /\ upc \in {"failed", "succeeded", "done"} => timer \notin timers

====
